---- MODULE Spec2Model ----
(***************************************************************************)
(* The night light registry codec of win-nightlight-lib: the Settings and   *)
(* State records, their byte encodings, their decoders and their mutators.  *)
(*                                                                          *)
(* Conventions                                                              *)
(*  - A byte buffer is a sequence of numbers 0..255.  Positions are the     *)
(*    0-based positions of the Rust code: At(data, i) is data[i] and        *)
(*    Slice(data, a, b) is data[a..b].                                      *)
(*  - A u64 timestamp t is held as the pair <<t >> 28, t & (2^28 - 1)>>,    *)
(*    the split the 5-byte timestamp field makes, because the model         *)
(*    checker's integers are 32-bit signed and 2^32 - 1 does not fit.       *)
(*  - A chrono::NaiveTime is the record [hour, minute, second].             *)
(*  - A Result is [tag |-> "Ok", ...] or [tag |-> "Err", err |-> e]; a      *)
(*    panic (slice or index out of range, arithmetic overflow in a build    *)
(*    with overflow checks) is [tag |-> "Panic"].                           *)
(***************************************************************************)
EXTENDS Integers, Sequences, FiniteSets, TLC

VARIABLES
    overflow_checks, \* the build profile: TRUE = overflow checks on (debug), FALSE = wrapping (release)
    kind,            \* which record kind the buffer in play belongs to: "settings" or "state"
    settings,        \* the NightlightSettings struct in memory
    state,           \* the NightlightState struct in memory
    now,             \* the wall clock, Utc::now().timestamp() as u64
    data,            \* the byte buffer in play (read from / to be written to the store)
    decoded,         \* the result of the last deserialize_from_bytes(data)
    ret,             \* the last mutator call: its name, argument, the clock at the call, its return value
    lastFlip,        \* the last enable/disable call on this State record that returned true
    pc               \* the caller's position: "record", "buffer", "tampered", "decoded", "panicked"

vars == <<overflow_checks, kind, settings, state, now, data, decoded, ret, lastFlip, pc>>

----------------------------------------------------------------------------
(* Bytes, slices, results *)

Byte == 0..255

At(d, i) == d[i + 1]

Slice(d, a, b) == SubSeq(d, a + 1, b)

\* data[a..b] panics unless a <= b <= data.len()
SliceOk(d, a, b) == a <= b /\ b <= Len(d)

\* data[i] panics unless i < data.len()
IndexOk(d, i) == i < Len(d)

Panic == [tag |-> "Panic"]

Err(e) == [tag |-> "Err", err |-> e]

\* DeserializationError::InvalidBlock(name)
InvalidBlock(name) == [tag |-> "Err", err |-> "InvalidBlock", block |-> name]

Pow2(n) == 2 ^ n

Shr(x, n) == x \div Pow2(n)

Shl(x, n) == x * Pow2(n)

RECURSIVE BitAnd(_, _)
BitAnd(a, b) ==
    IF a = 0 \/ b = 0 THEN 0
    ELSE 2 * BitAnd(a \div 2, b \div 2) + (IF a % 2 = 1 /\ b % 2 = 1 THEN 1 ELSE 0)

RECURSIVE BitOr(_, _)
BitOr(a, b) ==
    IF a = 0 THEN b
    ELSE IF b = 0 THEN a
    ELSE 2 * BitOr(a \div 2, b \div 2) + (IF a % 2 = 1 \/ b % 2 = 1 THEN 1 ELSE 0)

\* x as u8
AsU8(x) == x % 256

----------------------------------------------------------------------------
(* consts.rs *)

STRUCT_HEADER_BYTES == <<67, 66, 1, 0>>          \* 43 42 01 00

STRUCT_FOOTER_BYTES == <<0, 0, 0, 0>>

TIMESTAMP_HEADER_BYTES == <<10, 2, 1, 0>>        \* 0A 02 01 00

TIMESTAMP_PREFIX_BYTES == <<42, 6>>              \* 2A 06

TIMESTAMP_SIZE == 5

TIMESTAMP_SUFFIX_BYTES == <<42, 43, 14>>         \* 2A 2B 0E

(* nightlight_settings.rs *)

SCHEDULE_ENABLED_BYTES == <<2, 1>>

SCHEDULE_MODE_SET_HOURS_ENABLED_BYTES == <<194, 10, 0>>   \* C2 0A 00

SCHEDULE_START_TIME_PREFIX_BYTES == <<202, 20>>  \* CA 14

SCHEDULE_END_TIME_PREFIX_BYTES == <<202, 30>>    \* CA 1E

SUNSET_TIME_PREFIX_BYTES == <<202, 50>>          \* CA 32

SUNRISE_TIME_PREFIX_BYTES == <<202, 60>>         \* CA 3C

TIME_BLOCK_HOUR_IDENTIFIER_PREFIX_BYTE == 14     \* 0E

TIME_BLOCK_MINUTE_IDENTIFIER_PREFIX_BYTE == 46   \* 2E

TIME_BLOCK_TERMINAL_BYTE == 0

COLOR_TEMPERATURE_PREFIX_BYTES == <<207, 40>>    \* CF 28

COLOR_TEMPERATURE_SIZE == 2

ScheduleMode == {"Off", "SunsetToSunrise", "SetHours"}

TimeBlockType == {"ScheduleStart", "ScheduleEnd", "Sunset", "Sunrise"}

get_prefix_identifier(time_type) ==
    CASE time_type = "ScheduleStart" -> SCHEDULE_START_TIME_PREFIX_BYTES
      [] time_type = "ScheduleEnd" -> SCHEDULE_END_TIME_PREFIX_BYTES
      [] time_type = "Sunset" -> SUNSET_TIME_PREFIX_BYTES
      [] time_type = "Sunrise" -> SUNRISE_TIME_PREFIX_BYTES

(* nightlight_state.rs *)

NIGHTLIGHT_STATE_ENABLED_BYTES == <<16, 0>>      \* 10 00

----------------------------------------------------------------------------
(* parser.rs *)

\* NaiveTime::from_hms_opt(h, m, s)
NaiveTime(h, m, s) == [hour |-> h, minute |-> m, second |-> s]

time_to_naive_time(hours, minutes) ==
    IF hours < 24 /\ minutes < 60
    THEN [tag |-> "Ok", value |-> NaiveTime(hours, minutes, 0)]
    ELSE Err("InvalidTimeValue")

\* timestamp = <<hi, lo>>: hi = timestamp >> 28, lo = timestamp & 0xFFFFFFF
timestamp_to_bytes(timestamp) ==
    LET hi == timestamp[1]
        lo == timestamp[2]
    IN  << AsU8(BitOr(BitAnd(lo, 127), 128)),
           AsU8(BitOr(BitAnd(Shr(lo, 7), 127), 128)),
           AsU8(BitOr(BitAnd(Shr(lo, 14), 127), 128)),
           AsU8(BitOr(BitAnd(Shr(lo, 21), 127), 128)),
           AsU8(hi) >>

\* bytes[3] is not masked: its top bit lands on bit 28
timestamp_from_bytes_unmasked(bytes) ==
    << BitOr(bytes[5], Shr(bytes[4], 7)),
       BitOr(BitOr(BitOr(Shl(BitAnd(bytes[4], 127), 21),
                         Shl(BitAnd(bytes[3], 127), 14)),
                   Shl(BitAnd(bytes[2], 127), 7)),
             BitAnd(bytes[1], 127)) >>

timestamp_from_bytes(bytes) ==
    << bytes[5],
       BitOr(BitOr(BitOr(Shl(BitAnd(bytes[4], 127), 21),
                         Shl(BitAnd(bytes[3], 127), 14)),
                   Shl(BitAnd(bytes[2], 127), 7)),
             BitAnd(bytes[1], 127)) >>

\* drops bit 0 of the value
kelvin_to_bytes_even(color_temperature) ==
    << AsU8(BitAnd(color_temperature, 62) * 2 + 128),
       AsU8(Shr(color_temperature, 6)) >>

\* masks seven bits instead of six
kelvin_to_bytes_mask7(color_temperature) ==
    << AsU8(BitAnd(color_temperature, 127) * 2 + 128),
       AsU8(Shr(color_temperature, 6)) >>

kelvin_to_bytes(color_temperature) ==
    << AsU8(BitAnd(color_temperature, 63) * 2 + 128),
       AsU8(Shr(color_temperature, 6)) >>

\* shifts bytes[1] by 7 in place of 6
kelvin_from_bytes_shift7(bytes) ==
    IF bytes[1] < 128 /\ overflow_checks THEN Panic
    ELSE [tag |-> "Ok",
          value |-> BitOr(Shl(bytes[2], 7), ((bytes[1] + 256 - 128) % 256) \div 2)]

\* bytes[0] - 0x80 is a u8 subtraction: it panics with overflow checks and wraps without
kelvin_from_bytes(bytes) ==
    IF bytes[1] < 128 /\ overflow_checks THEN Panic
    ELSE [tag |-> "Ok",
          value |-> BitOr(Shl(bytes[2], 6), ((bytes[1] + 256 - 128) % 256) \div 2)]

parse_last_modified_timestamp_block(d, start_from) ==
    LET p0 == start_from
        p1 == p0 + Len(TIMESTAMP_HEADER_BYTES)
        p2 == p1 + Len(TIMESTAMP_PREFIX_BYTES)
        p3 == p2 + TIMESTAMP_SIZE
        p4 == p3 + Len(TIMESTAMP_SUFFIX_BYTES)
    IN  IF ~SliceOk(d, p0, p1) THEN Panic
        ELSE IF Slice(d, p0, p1) # TIMESTAMP_HEADER_BYTES THEN Err("TimestampBlock")
        ELSE IF ~SliceOk(d, p1, p2) THEN Panic
        ELSE IF Slice(d, p1, p2) # TIMESTAMP_PREFIX_BYTES THEN Err("TimestampBlock")
        ELSE IF ~SliceOk(d, p2, p3) THEN Panic
        ELSE IF ~SliceOk(d, p3, p4) THEN Panic
        ELSE IF Slice(d, p3, p4) # TIMESTAMP_SUFFIX_BYTES THEN Err("TimestampBlock")
        ELSE [tag |-> "Ok", value |-> timestamp_from_bytes(Slice(d, p2, p3)), pos |-> p4]

----------------------------------------------------------------------------
(* nightlight_settings.rs: the Settings codec *)

NightlightSettings(ts, mode, ct, start, end, sunset, sunrise) ==
    [timestamp |-> ts, schedule_mode |-> mode, color_temperature |-> ct,
     start_time |-> start, end_time |-> end,
     sunset_time |-> sunset, sunrise_time |-> sunrise]

\* looks for the minute tag before the hour tag
time_hours_minutes_from_bytes_minute_first(d, pos) ==
    IF ~IndexOk(d, pos) THEN Panic
    ELSE
    LET hasMinute == At(d, pos) = TIME_BLOCK_MINUTE_IDENTIFIER_PREFIX_BYTE IN
    IF hasMinute /\ ~IndexOk(d, pos + 1) THEN Panic
    ELSE
    LET start_minute == IF hasMinute THEN At(d, pos + 1) ELSE 0
        pos1 == IF hasMinute THEN pos + 2 ELSE pos
    IN
    IF start_minute >= 60 THEN InvalidBlock("TimeBlockMinuteValue")
    ELSE IF ~IndexOk(d, pos1) THEN Panic
    ELSE
    LET hasHour == At(d, pos1) = TIME_BLOCK_HOUR_IDENTIFIER_PREFIX_BYTE IN
    IF hasHour /\ ~IndexOk(d, pos1 + 1) THEN Panic
    ELSE
    LET start_hour == IF hasHour THEN At(d, pos1 + 1) ELSE 0
        pos2 == IF hasHour THEN pos1 + 2 ELSE pos1
    IN
    IF start_hour >= 24 THEN InvalidBlock("TimeBlockHourValue")
    ELSE IF ~IndexOk(d, pos2) THEN Panic
    ELSE IF At(d, pos2) # TIME_BLOCK_TERMINAL_BYTE THEN InvalidBlock("TimeBlockTerminal")
    ELSE [tag |-> "Ok", hours |-> start_hour, minutes |-> start_minute, pos |-> pos2 + 1]

time_hours_minutes_from_bytes(d, pos) ==
    IF ~IndexOk(d, pos) THEN Panic
    ELSE
    LET hasHour == At(d, pos) = TIME_BLOCK_HOUR_IDENTIFIER_PREFIX_BYTE IN
    IF hasHour /\ ~IndexOk(d, pos + 1) THEN Panic
    ELSE
    LET start_hour == IF hasHour THEN At(d, pos + 1) ELSE 0
        pos1 == IF hasHour THEN pos + 2 ELSE pos
    IN
    IF start_hour >= 24 THEN InvalidBlock("TimeBlockHourValue")
    ELSE IF ~IndexOk(d, pos1) THEN Panic
    ELSE
    LET hasMinute == At(d, pos1) = TIME_BLOCK_MINUTE_IDENTIFIER_PREFIX_BYTE IN
    IF hasMinute /\ ~IndexOk(d, pos1 + 1) THEN Panic
    ELSE
    LET start_minute == IF hasMinute THEN At(d, pos1 + 1) ELSE 0
        pos2 == IF hasMinute THEN pos1 + 2 ELSE pos1
    IN
    IF start_minute >= 60 THEN InvalidBlock("TimeBlockMinuteValue")
    ELSE IF ~IndexOk(d, pos2) THEN Panic
    ELSE IF At(d, pos2) # TIME_BLOCK_TERMINAL_BYTE THEN InvalidBlock("TimeBlockTerminal")
    ELSE [tag |-> "Ok", hours |-> start_hour, minutes |-> start_minute, pos |-> pos2 + 1]

\* writes the hour tag for hour 0 too
naive_time_to_bytes_always_hour(time, time_type) ==
    LET hour == AsU8(time.hour)
        minute == AsU8(time.minute)
    IN  get_prefix_identifier(time_type)
        \o <<TIME_BLOCK_HOUR_IDENTIFIER_PREFIX_BYTE, hour>>
        \o (IF minute > 0 THEN <<TIME_BLOCK_MINUTE_IDENTIFIER_PREFIX_BYTE, minute>> ELSE <<>>)
        \o <<TIME_BLOCK_TERMINAL_BYTE>>

\* writes the minute tag for minute 0 too
naive_time_to_bytes_always_minute(time, time_type) ==
    LET hour == AsU8(time.hour)
        minute == AsU8(time.minute)
    IN  get_prefix_identifier(time_type)
        \o (IF hour > 0 THEN <<TIME_BLOCK_HOUR_IDENTIFIER_PREFIX_BYTE, hour>> ELSE <<>>)
        \o <<TIME_BLOCK_MINUTE_IDENTIFIER_PREFIX_BYTE, minute>>
        \o <<TIME_BLOCK_TERMINAL_BYTE>>

\* time.hour() as u8, time.minute() as u8; the seconds are not written
naive_time_to_bytes(time, time_type) ==
    LET hour == AsU8(time.hour)
        minute == AsU8(time.minute)
    IN  get_prefix_identifier(time_type)
        \o (IF hour > 0 THEN <<TIME_BLOCK_HOUR_IDENTIFIER_PREFIX_BYTE, hour>> ELSE <<>>)
        \o (IF minute > 0 THEN <<TIME_BLOCK_MINUTE_IDENTIFIER_PREFIX_BYTE, minute>> ELSE <<>>)
        \o <<TIME_BLOCK_TERMINAL_BYTE>>

Settings_parse_struct_header_block(d, pos) ==
    IF ~SliceOk(d, pos, pos + Len(STRUCT_HEADER_BYTES)) THEN Panic
    ELSE IF Slice(d, pos, pos + Len(STRUCT_HEADER_BYTES)) # STRUCT_HEADER_BYTES
         THEN Err("StructStart")
    ELSE [tag |-> "Ok", pos |-> pos + Len(STRUCT_HEADER_BYTES)]

Settings_parse_last_modified_timestamp_block(d, start_from) ==
    LET p0 == start_from
        p1 == p0 + Len(TIMESTAMP_HEADER_BYTES)
        p2 == p1 + Len(TIMESTAMP_PREFIX_BYTES)
        p3 == p2 + TIMESTAMP_SIZE
        p4 == p3 + Len(TIMESTAMP_SUFFIX_BYTES)
    IN  IF ~SliceOk(d, p0, p1) THEN Panic
        ELSE IF Slice(d, p0, p1) # TIMESTAMP_HEADER_BYTES THEN Err("TimestampBlock")
        ELSE IF ~SliceOk(d, p1, p2) THEN Panic
        ELSE IF Slice(d, p1, p2) # TIMESTAMP_PREFIX_BYTES THEN Err("TimestampBlock")
        ELSE IF ~SliceOk(d, p2, p3) THEN Panic
        ELSE IF ~SliceOk(d, p3, p4) THEN Panic
        ELSE IF Slice(d, p3, p4) # TIMESTAMP_SUFFIX_BYTES THEN Err("TimestampBlock")
        ELSE [tag |-> "Ok", value |-> timestamp_from_bytes(Slice(d, p2, p3)), pos |-> p4]

parse_is_schedule_enabled_block(d, pos) ==
    IF ~SliceOk(d, pos, pos + Len(SCHEDULE_ENABLED_BYTES)) THEN Panic
    ELSE IF Slice(d, pos, pos + Len(SCHEDULE_ENABLED_BYTES)) # SCHEDULE_ENABLED_BYTES
         THEN [tag |-> "Ok", value |-> FALSE, pos |-> pos]
    ELSE [tag |-> "Ok", value |-> TRUE, pos |-> pos + Len(SCHEDULE_ENABLED_BYTES)]

parse_is_schedule_mode_set_hours_enabled_block(d, pos) ==
    IF ~SliceOk(d, pos, pos + Len(SCHEDULE_MODE_SET_HOURS_ENABLED_BYTES)) THEN Panic
    ELSE IF Slice(d, pos, pos + Len(SCHEDULE_MODE_SET_HOURS_ENABLED_BYTES))
            # SCHEDULE_MODE_SET_HOURS_ENABLED_BYTES
         THEN [tag |-> "Ok", value |-> FALSE, pos |-> pos]
    ELSE [tag |-> "Ok", value |-> TRUE,
          pos |-> pos + Len(SCHEDULE_MODE_SET_HOURS_ENABLED_BYTES)]

parse_time_type_block(d, pos, time_type) ==
    LET prefix_bytes == get_prefix_identifier(time_type) IN
    IF ~SliceOk(d, pos, pos + Len(prefix_bytes)) THEN Panic
    ELSE IF Slice(d, pos, pos + Len(prefix_bytes)) # prefix_bytes THEN InvalidBlock(time_type)
    ELSE time_hours_minutes_from_bytes(d, pos + Len(prefix_bytes))

parse_color_temperature_block(d, pos) ==
    LET p1 == pos + Len(COLOR_TEMPERATURE_PREFIX_BYTES)
        p2 == p1 + COLOR_TEMPERATURE_SIZE
    IN  IF ~SliceOk(d, pos, p1) THEN Panic
        ELSE IF Slice(d, pos, p1) # COLOR_TEMPERATURE_PREFIX_BYTES THEN InvalidBlock("ColorTemperature")
        ELSE IF ~SliceOk(d, p1, p2) THEN Panic
        ELSE LET k == kelvin_from_bytes(Slice(d, p1, p2)) IN
             IF k.tag # "Ok" THEN k
             ELSE [tag |-> "Ok", value |-> k.value, pos |-> p2]

Settings_parse_struct_footer_block(d, pos) ==
    IF ~SliceOk(d, pos, pos + Len(STRUCT_FOOTER_BYTES)) THEN Panic
    ELSE IF Slice(d, pos, pos + Len(STRUCT_FOOTER_BYTES)) # STRUCT_FOOTER_BYTES
         THEN Err("StructEnd")
    ELSE [tag |-> "Ok", pos |-> pos + Len(STRUCT_FOOTER_BYTES)]

\* the set-hours flag alone decides for SetHours
Settings_build_set_hours_alone(timestamp, is_schedule_enabled, is_set_hours, ct, st, en, ss, sr) ==
    LET schedule_mode ==
            IF is_set_hours THEN "SetHours"
            ELSE IF is_schedule_enabled THEN "SunsetToSunrise"
            ELSE "Off"
        start_time == time_to_naive_time(st.hours, st.minutes)
        end_time == time_to_naive_time(en.hours, en.minutes)
        sunset_time == time_to_naive_time(ss.hours, ss.minutes)
        sunrise_time == time_to_naive_time(sr.hours, sr.minutes)
    IN  IF start_time.tag # "Ok" THEN start_time
        ELSE IF end_time.tag # "Ok" THEN end_time
        ELSE IF sunset_time.tag # "Ok" THEN sunset_time
        ELSE IF sunrise_time.tag # "Ok" THEN sunrise_time
        ELSE [tag |-> "Ok",
              value |-> NightlightSettings(timestamp, schedule_mode, ct,
                                           start_time.value, end_time.value,
                                           sunset_time.value, sunrise_time.value)]

\* lines 349-373: the mode from the two flags, the four NaiveTimes, the struct
Settings_build(timestamp, is_schedule_enabled, is_set_hours, ct, st, en, ss, sr) ==
    LET schedule_mode ==
            IF is_schedule_enabled
            THEN (IF is_set_hours THEN "SetHours" ELSE "SunsetToSunrise")
            ELSE "Off"
        start_time == time_to_naive_time(st.hours, st.minutes)
        end_time == time_to_naive_time(en.hours, en.minutes)
        sunset_time == time_to_naive_time(ss.hours, ss.minutes)
        sunrise_time == time_to_naive_time(sr.hours, sr.minutes)
    IN  IF start_time.tag # "Ok" THEN start_time
        ELSE IF end_time.tag # "Ok" THEN end_time
        ELSE IF sunset_time.tag # "Ok" THEN sunset_time
        ELSE IF sunrise_time.tag # "Ok" THEN sunrise_time
        ELSE [tag |-> "Ok",
              value |-> NightlightSettings(timestamp, schedule_mode, ct,
                                           start_time.value, end_time.value,
                                           sunset_time.value, sunrise_time.value)]

\* lines 324-328: data.len() != remaining_struct_size as usize + pos + STRUCT_FOOTER_BYTES.len()
Settings_at_least(d, pos, remaining_struct_size) ==
    Len(d) < remaining_struct_size + pos + Len(STRUCT_FOOTER_BYTES)

Settings_remaining_struct_size_differs(d, pos, remaining_struct_size) ==
    Len(d) # remaining_struct_size + pos + Len(STRUCT_FOOTER_BYTES)

Settings_deserialize_from_bytes(d) ==
    LET h1 == Settings_parse_struct_header_block(d, 0) IN
    IF h1.tag # "Ok" THEN h1 ELSE
    LET ts == Settings_parse_last_modified_timestamp_block(d, h1.pos) IN
    IF ts.tag # "Ok" THEN ts ELSE
    IF ~IndexOk(d, ts.pos) THEN Panic ELSE
    LET remaining_struct_size == At(d, ts.pos) IN
    IF Settings_remaining_struct_size_differs(d, ts.pos, remaining_struct_size)
    THEN Err("StructEnd") ELSE
    LET h2 == Settings_parse_struct_header_block(d, ts.pos + 1) IN
    IF h2.tag # "Ok" THEN h2 ELSE
    LET se == parse_is_schedule_enabled_block(d, h2.pos) IN
    IF se.tag # "Ok" THEN se ELSE
    LET sh == parse_is_schedule_mode_set_hours_enabled_block(d, se.pos) IN
    IF sh.tag # "Ok" THEN sh ELSE
    LET st == parse_time_type_block(d, sh.pos, "ScheduleStart") IN
    IF st.tag # "Ok" THEN st ELSE
    LET en == parse_time_type_block(d, st.pos, "ScheduleEnd") IN
    IF en.tag # "Ok" THEN en ELSE
    LET ct == parse_color_temperature_block(d, en.pos) IN
    IF ct.tag # "Ok" THEN ct ELSE
    LET ss == parse_time_type_block(d, ct.pos, "Sunset") IN
    IF ss.tag # "Ok" THEN ss ELSE
    LET sr == parse_time_type_block(d, ss.pos, "Sunrise") IN
    IF sr.tag # "Ok" THEN sr ELSE
    LET ft == Settings_parse_struct_footer_block(d, sr.pos) IN
    IF ft.tag # "Ok" THEN ft ELSE
    IF ft.pos # Len(d) THEN Err("StructEnd") ELSE
    Settings_build(ts.value, se.value, sh.value, ct.value, st, en, ss, sr)

\* the size of the body without the byte itself
remaining_struct_size_of_body(remaining_struct_bytes) ==
    [tag |-> "Ok", value |-> AsU8(Len(remaining_struct_bytes))]

\* remaining_struct_bytes.len() as u8 + 1: the cast truncates, the addition is a u8
\* addition that panics with overflow checks and wraps without
remaining_struct_size_of(remaining_struct_bytes) ==
    LET n == AsU8(Len(remaining_struct_bytes)) IN
    IF n + 1 > 255
    THEN (IF overflow_checks THEN Panic ELSE [tag |-> "Ok", value |-> 0])
    ELSE [tag |-> "Ok", value |-> n + 1]

struct_front_bytes(timestamp) ==
    STRUCT_HEADER_BYTES \o TIMESTAMP_HEADER_BYTES \o TIMESTAMP_PREFIX_BYTES
    \o timestamp_to_bytes(timestamp) \o TIMESTAMP_SUFFIX_BYTES

Settings_serialize_to_bytes(self) ==
    LET bytes == struct_front_bytes(self.timestamp)
        mode_bytes ==
            CASE self.schedule_mode = "Off" -> <<>>
              [] self.schedule_mode = "SunsetToSunrise" -> SCHEDULE_ENABLED_BYTES
              [] self.schedule_mode = "SetHours" ->
                    SCHEDULE_ENABLED_BYTES \o SCHEDULE_MODE_SET_HOURS_ENABLED_BYTES
        remaining_struct_bytes ==
            STRUCT_HEADER_BYTES \o mode_bytes
            \o naive_time_to_bytes(self.start_time, "ScheduleStart")
            \o naive_time_to_bytes(self.end_time, "ScheduleEnd")
            \o COLOR_TEMPERATURE_PREFIX_BYTES
            \o kelvin_to_bytes(self.color_temperature)
            \o naive_time_to_bytes(self.sunset_time, "Sunset")
            \o naive_time_to_bytes(self.sunrise_time, "Sunrise")
        remaining_struct_size == remaining_struct_size_of(remaining_struct_bytes)
    IN  IF remaining_struct_size.tag # "Ok" THEN Panic
        ELSE [tag |-> "Ok",
              bytes |-> bytes \o <<remaining_struct_size.value>>
                        \o remaining_struct_bytes \o STRUCT_FOOTER_BYTES]

----------------------------------------------------------------------------
(* nightlight_state.rs: the State codec *)

NightlightState(ts, enabled, remaining) ==
    [timestamp |-> ts, is_enabled |-> enabled, remaining_data |-> remaining]

State_parse_struct_header_block(d, pos) ==
    IF ~SliceOk(d, pos, pos + Len(STRUCT_HEADER_BYTES)) THEN Panic
    ELSE IF Slice(d, pos, pos + Len(STRUCT_HEADER_BYTES)) # STRUCT_HEADER_BYTES
         THEN Err("StructStart")
    ELSE [tag |-> "Ok", pos |-> pos + Len(STRUCT_HEADER_BYTES)]

State_parse_struct_footer_block(d, pos) ==
    IF ~SliceOk(d, pos, pos + Len(STRUCT_FOOTER_BYTES)) THEN Panic
    ELSE IF Slice(d, pos, pos + Len(STRUCT_FOOTER_BYTES)) # STRUCT_FOOTER_BYTES
         THEN Err("StructEnd")
    ELSE [tag |-> "Ok", pos |-> pos + Len(STRUCT_FOOTER_BYTES)]

\* the marker found, and the payload taken from the marker on
parse_is_enabled_block_no_skip(d, pos) ==
    IF ~SliceOk(d, pos, pos + Len(NIGHTLIGHT_STATE_ENABLED_BYTES)) THEN Panic
    ELSE [tag |-> "Ok",
          value |-> Slice(d, pos, pos + Len(NIGHTLIGHT_STATE_ENABLED_BYTES))
                        = NIGHTLIGHT_STATE_ENABLED_BYTES,
          pos |-> pos]

parse_is_enabled_block(d, pos) ==
    IF ~SliceOk(d, pos, pos + Len(NIGHTLIGHT_STATE_ENABLED_BYTES)) THEN Panic
    ELSE IF Slice(d, pos, pos + Len(NIGHTLIGHT_STATE_ENABLED_BYTES))
            = NIGHTLIGHT_STATE_ENABLED_BYTES
         THEN [tag |-> "Ok", value |-> TRUE, pos |-> pos + Len(NIGHTLIGHT_STATE_ENABLED_BYTES)]
    ELSE [tag |-> "Ok", value |-> FALSE, pos |-> pos]

\* data.len() - STRUCT_FOOTER_BYTES.len() is a usize subtraction
parse_remaining_data_block(d, pos) ==
    IF Len(d) < Len(STRUCT_FOOTER_BYTES) THEN Panic
    ELSE IF ~SliceOk(d, pos, Len(d) - Len(STRUCT_FOOTER_BYTES)) THEN Panic
    ELSE LET remaining_data_vec == Slice(d, pos, Len(d) - Len(STRUCT_FOOTER_BYTES)) IN
         [tag |-> "Ok", value |-> remaining_data_vec, pos |-> pos + Len(remaining_data_vec)]

\* lines 86-90: data.len() != remaining_struct_size as usize + pos + STRUCT_FOOTER_BYTES.len()
State_remaining_struct_size_differs(d, pos, remaining_struct_size) ==
    Len(d) # remaining_struct_size + pos + Len(STRUCT_FOOTER_BYTES)

State_deserialize_from_bytes(d) ==
    LET h1 == State_parse_struct_header_block(d, 0) IN
    IF h1.tag # "Ok" THEN h1 ELSE
    LET ts == parse_last_modified_timestamp_block(d, h1.pos) IN
    IF ts.tag # "Ok" THEN ts ELSE
    IF ~IndexOk(d, ts.pos) THEN Panic ELSE
    LET remaining_struct_size == At(d, ts.pos) IN
    IF State_remaining_struct_size_differs(d, ts.pos, remaining_struct_size)
    THEN Err("StructEnd") ELSE
    LET h2 == State_parse_struct_header_block(d, ts.pos + 1) IN
    IF h2.tag # "Ok" THEN h2 ELSE
    LET en == parse_is_enabled_block(d, h2.pos) IN
    IF en.tag # "Ok" THEN en ELSE
    LET rd == parse_remaining_data_block(d, en.pos) IN
    IF rd.tag # "Ok" THEN rd ELSE
    LET ft == State_parse_struct_footer_block(d, rd.pos) IN
    IF ft.tag # "Ok" THEN ft ELSE
    IF ft.pos # Len(d) THEN Err("StructEnd") ELSE
    [tag |-> "Ok", value |-> NightlightState(ts.value, en.value, rd.value)]

State_serialize_to_bytes(self) ==
    LET bytes == struct_front_bytes(self.timestamp)
        remaining_struct_bytes ==
            STRUCT_HEADER_BYTES
            \o (IF self.is_enabled THEN NIGHTLIGHT_STATE_ENABLED_BYTES ELSE <<>>)
            \o self.remaining_data
        remaining_struct_size == remaining_struct_size_of(remaining_struct_bytes)
    IN  IF remaining_struct_size.tag # "Ok" THEN Panic
        ELSE [tag |-> "Ok",
              bytes |-> bytes \o <<remaining_struct_size.value>>
                        \o remaining_struct_bytes \o STRUCT_FOOTER_BYTES]

----------------------------------------------------------------------------
(* The mutators *)

\* leaves the timestamp as it was
update_timestamp_stale(self, clock) == self

\* Utc::now().timestamp() as u64, given the clock
update_timestamp(self, clock) == [self EXCEPT !.timestamp = clock]

set_mode(self, mode, clock) ==
    IF self.schedule_mode = mode THEN self
    ELSE update_timestamp([self EXCEPT !.schedule_mode = mode], clock)

\* 1200..6500 in place of 1200..=6500
set_color_temperature_exclusive(self, color_temperature, clock) ==
    IF self.color_temperature = color_temperature
    THEN [self |-> self, out |-> [tag |-> "Ok"]]
    ELSE IF ~(color_temperature >= 1200 /\ color_temperature < 6500)
    THEN [self |-> self,
          out |-> [tag |-> "Err", err |-> "InvalidColorTemperature",
                   value |-> color_temperature]]
    ELSE [self |-> update_timestamp([self EXCEPT !.color_temperature = color_temperature],
                                    clock),
          out |-> [tag |-> "Ok"]]

\* assigns the value and the timestamp before the range check
set_color_temperature_assign_first(self, color_temperature, clock) ==
    IF self.color_temperature = color_temperature
    THEN [self |-> self, out |-> [tag |-> "Ok"]]
    ELSE LET assigned ==
                 update_timestamp([self EXCEPT !.color_temperature = color_temperature],
                                  clock)
         IN  IF ~(color_temperature >= 1200 /\ color_temperature <= 6500)
             THEN [self |-> assigned,
                   out |-> [tag |-> "Err", err |-> "InvalidColorTemperature",
                            value |-> color_temperature]]
             ELSE [self |-> assigned, out |-> [tag |-> "Ok"]]

\* only the upper limit is checked
set_color_temperature_upper_only(self, color_temperature, clock) ==
    IF self.color_temperature = color_temperature
    THEN [self |-> self, out |-> [tag |-> "Ok"]]
    ELSE IF ~(color_temperature <= 6500)
    THEN [self |-> self,
          out |-> [tag |-> "Err", err |-> "InvalidColorTemperature",
                   value |-> color_temperature]]
    ELSE [self |-> update_timestamp([self EXCEPT !.color_temperature = color_temperature],
                                    clock),
          out |-> [tag |-> "Ok"]]

\* returns the struct after the call and the Result
set_color_temperature(self, color_temperature, clock) ==
    IF self.color_temperature = color_temperature
    THEN [self |-> self, out |-> [tag |-> "Ok"]]
    ELSE IF ~(color_temperature >= 1200 /\ color_temperature <= 6500)
    THEN [self |-> self,
          out |-> [tag |-> "Err", err |-> "InvalidColorTemperature",
                   value |-> color_temperature]]
    ELSE [self |-> update_timestamp([self EXCEPT !.color_temperature = color_temperature],
                                    clock),
          out |-> [tag |-> "Ok"]]

\* no comparison with the current value
set_start_time_unconditional(self, start_time, clock) ==
    update_timestamp([self EXCEPT !.start_time = start_time], clock)

set_start_time(self, start_time, clock) ==
    IF self.start_time = start_time THEN self
    ELSE update_timestamp([self EXCEPT !.start_time = start_time], clock)

\* assigns the start time in place of the end time
set_end_time_assigns_start(self, end_time, clock) ==
    IF self.end_time = end_time THEN self
    ELSE update_timestamp([self EXCEPT !.start_time = end_time], clock)

set_end_time(self, end_time, clock) ==
    IF self.end_time = end_time THEN self
    ELSE update_timestamp([self EXCEPT !.end_time = end_time], clock)

set_sunset_time(self, sunset_time, clock) ==
    IF self.sunset_time = sunset_time THEN self
    ELSE update_timestamp([self EXCEPT !.sunset_time = sunset_time], clock)

set_sunrise_time(self, sunrise_time, clock) ==
    IF self.sunrise_time = sunrise_time THEN self
    ELSE update_timestamp([self EXCEPT !.sunrise_time = sunrise_time], clock)

\* reports a change whatever the flag was
enable_unconditional(self, clock) ==
    [self |-> update_timestamp([self EXCEPT !.is_enabled = TRUE], clock), out |-> TRUE]

\* returns the struct after the call and the bool
enable(self, clock) ==
    IF ~self.is_enabled
    THEN [self |-> update_timestamp([self EXCEPT !.is_enabled = TRUE], clock), out |-> TRUE]
    ELSE [self |-> self, out |-> FALSE]

disable(self, clock) ==
    IF self.is_enabled
    THEN [self |-> update_timestamp([self EXCEPT !.is_enabled = FALSE], clock), out |-> TRUE]
    ELSE [self |-> self, out |-> FALSE]

----------------------------------------------------------------------------
(* Inputs *)

\* the longest payload enumerated byte by byte
MaxPayloadLen == 2

\* how many seconds the wall clock advances
MaxTicks == 2

\* 0, 2^28, 1742540908, 1742670473 and 2^32 - 1
TimestampSamples ==
    { <<0, 0>>, <<1, 0>>, <<6, 131928172>>, <<6, 132057737>>, <<15, 268435455>> }

T(h, m) == NaiveTime(h, m, 0)

\* 14 = 0E is the hour tag and 46 = 2E the minute tag
StartTimeSamples == { T(0, 0), T(0, 46), T(14, 0), T(14, 46), T(23, 59), T(1, 15) }

EndTimeSamples == { T(0, 0), T(14, 14), T(23, 59) }

SunsetTimeSamples == { T(19, 23), T(0, 0), T(14, 46) }

SunriseTimeSamples == { T(7, 12), T(0, 46) }

\* 13-bit values: the ends, the ends of the setter's domain, the value of the test
ColorTemperatureSamples == { 0, 1200, 2790, 6500, 8191 }

SettingsSamples ==
    { NightlightSettings(ts, m, ct, st, en, ss, sr) :
        ts \in TimestampSamples \ { <<6, 132057737>> }, m \in ScheduleMode,
        ct \in ColorTemperatureSamples,
        st \in StartTimeSamples, en \in EndTimeSamples,
        ss \in SunsetTimeSamples, sr \in SunriseTimeSamples }

\* the record of test_serialize_to_bytes / test_deserialize_from_bytes
TestSettings ==
    NightlightSettings(<<6, 131928172>>, "SetHours", 2790,
                       T(1, 15), T(0, 0), T(19, 23), T(7, 12))

TestSettingsBytes ==
    << 67, 66, 1, 0, 10, 2, 1, 0, 42, 6, 236, 160, 244, 190,
       6, 42, 43, 14, 38, 67, 66, 1, 0, 2, 1, 194, 10, 0,
       202, 20, 14, 1, 46, 15, 0, 202, 30, 0, 207, 40, 204, 43,
       202, 50, 14, 19, 46, 23, 0, 202, 60, 14, 7, 46, 12, 0,
       0, 0, 0, 0 >>

\* 10 00 is the enabled marker, D0 the first byte of the payloads seen in the registry
PayloadByteSamples == { 0, 16, 208 }

RECURSIVE SeqsUpTo(_, _)
SeqsUpTo(S, n) ==
    IF n = 0 THEN { <<>> }
    ELSE LET shorter == SeqsUpTo(S, n - 1) IN
         shorter \cup { Append(q, b) : q \in shorter, b \in S }

\* the payload of test_serialize_to_bytes: D0 0A 02 C6 14 A9 F6 E2 D3 EF EA E7 ED 01
TestPayload == << 208, 10, 2, 198, 20, 169, 246, 226, 211, 239, 234, 231, 237, 1 >>

\* the payload inside BYTES_DISABLED and BYTES_ENABLED: ... EA E6 ED 01
RegistryPayload == << 208, 10, 2, 198, 20, 169, 246, 226, 211, 239, 234, 230, 237, 1 >>

\* the longest payloads a decoded record can hold (the length byte is at most 255),
\* where 4 + 2 + len stops fitting the length byte once the record is enabled
LongPayloads == { [i \in 1..n |-> 208] : n \in {248, 249, 250} }

PayloadSamples ==
    SeqsUpTo(PayloadByteSamples, MaxPayloadLen)
    \cup {TestPayload, RegistryPayload}

StateSamples ==
    { NightlightState(ts, en, rd) :
        ts \in TimestampSamples, en \in BOOLEAN, rd \in PayloadSamples }

TestStateDisabled == NightlightState(<<6, 132057737>>, FALSE, TestPayload)

TestStateEnabled == NightlightState(<<6, 132057737>>, TRUE, TestPayload)

BYTES_DISABLED ==
    << 67, 66, 1, 0, 10, 2, 1, 0, 42, 6, 137, 149, 252, 190, 6,
       42, 43, 14, 19, 67, 66, 1, 0, 208, 10, 2, 198, 20, 169, 246,
       226, 211, 239, 234, 230, 237, 1, 0, 0, 0, 0 >>

BYTES_ENABLED ==
    << 67, 66, 1, 0, 10, 2, 1, 0, 42, 6, 137, 149, 252, 190, 6,
       42, 43, 14, 21, 67, 66, 1, 0, 16, 0, 208, 10, 2, 198, 20,
       169, 246, 226, 211, 239, 234, 230, 237, 1, 0, 0, 0, 0 >>

\* the wall clock when the caller starts: 1742670473
ClockStart == <<6, 132057737>>

NoResult == [tag |-> "None"]

NoCall == [op |-> "none", seq |-> 0]

----------------------------------------------------------------------------
(* Operations *)

\* settings.serialize_to_bytes()
SerializeSettings ==
    /\ pc = "record"
    /\ kind = "settings"
    /\ LET r == Settings_serialize_to_bytes(settings) IN
       IF r.tag = "Ok"
       THEN data' = r.bytes /\ pc' = "buffer"
       ELSE data' = data /\ pc' = "panicked"
    /\ UNCHANGED <<overflow_checks, kind, settings, state, now, decoded, ret, lastFlip>>

\* NightlightSettings::deserialize_from_bytes(&data)
DeserializeSettings ==
    /\ pc \in {"buffer", "tampered"}
    /\ kind = "settings"
    /\ decoded' = Settings_deserialize_from_bytes(data)
    /\ pc' = "decoded"
    /\ UNCHANGED <<overflow_checks, kind, settings, state, now, data, ret, lastFlip>>

\* state.serialize_to_bytes()
SerializeState ==
    /\ pc = "record"
    /\ kind = "state"
    /\ LET r == State_serialize_to_bytes(state) IN
       IF r.tag = "Ok"
       THEN data' = r.bytes /\ pc' = "buffer"
       ELSE data' = data /\ pc' = "panicked"
    /\ UNCHANGED <<overflow_checks, kind, settings, state, now, decoded, ret, lastFlip>>

\* NightlightState::deserialize_from_bytes(&data)
DeserializeState ==
    /\ pc \in {"buffer", "tampered"}
    /\ kind = "state"
    /\ decoded' = State_deserialize_from_bytes(data)
    /\ pc' = "decoded"
    /\ UNCHANGED <<overflow_checks, kind, settings, state, now, data, ret, lastFlip>>

InitCommon ==
    /\ overflow_checks \in BOOLEAN
    /\ now = ClockStart
    /\ data = <<>>
    /\ decoded = NoResult
    /\ ret = NoCall
    /\ lastFlip = "none"
    /\ pc = "record"

(* Settings records encoded and decoded again *)
InitSettingsCodec ==
    /\ InitCommon
    /\ kind = "settings"
    /\ settings \in SettingsSamples
    /\ state = TestStateDisabled

NextSettingsCodec == SerializeSettings \/ DeserializeSettings

SpecSettingsCodec == InitSettingsCodec /\ [][NextSettingsCodec]_vars

(* State records encoded and decoded again *)
InitStateCodec ==
    /\ InitCommon
    /\ kind = "state"
    /\ settings = TestSettings
    /\ state \in StateSamples

NextStateCodec == SerializeState \/ DeserializeState

SpecStateCodec == InitStateCodec /\ [][NextStateCodec]_vars

----------------------------------------------------------------------------
(* The caller: mutator calls, the clock, buffers handed in by the store *)

\* one second later, carrying from the low 28 bits into the high part
NextSecond(t) == IF t[2] + 1 = Pow2(28) THEN <<t[1] + 1, 0>> ELSE <<t[1], t[2] + 1>>

Tick ==
    /\ pc = "record"
    /\ now[1] = ClockStart[1]
    /\ now[2] - ClockStart[2] < MaxTicks
    /\ now' = NextSecond(now)
    /\ UNCHANGED <<overflow_checks, kind, settings, state, data, decoded, ret, lastFlip, pc>>

\* the record of a mutator call: its name, its argument, the clock at the call, what
\* it returned, and the parity of the number of calls made so far
Call(op, arg, out) == [op |-> op, arg |-> arg, at |-> now, out |-> out, seq |-> 1 - ret.seq]

Called == ret'.seq # ret.seq

ColorTemperatureArgs == { 0, 1199, 1200, 2790, 6500, 6501 }

TimeArgs == { T(0, 0), NaiveTime(23, 59, 30) }

SetMode(mode) ==
    /\ pc = "record" /\ kind = "settings"
    /\ settings' = set_mode(settings, mode, now)
    /\ ret' = Call("set_mode", mode, "unit")
    /\ UNCHANGED <<overflow_checks, kind, state, now, data, decoded, lastFlip, pc>>

SetColorTemperature(color_temperature) ==
    /\ pc = "record" /\ kind = "settings"
    /\ LET r == set_color_temperature(settings, color_temperature, now) IN
       /\ settings' = r.self
       /\ ret' = Call("set_color_temperature", color_temperature, r.out)
    /\ UNCHANGED <<overflow_checks, kind, state, now, data, decoded, lastFlip, pc>>

SetStartTime(time) ==
    /\ pc = "record" /\ kind = "settings"
    /\ settings' = set_start_time(settings, time, now)
    /\ ret' = Call("set_start_time", time, "unit")
    /\ UNCHANGED <<overflow_checks, kind, state, now, data, decoded, lastFlip, pc>>

SetEndTime(time) ==
    /\ pc = "record" /\ kind = "settings"
    /\ settings' = set_end_time(settings, time, now)
    /\ ret' = Call("set_end_time", time, "unit")
    /\ UNCHANGED <<overflow_checks, kind, state, now, data, decoded, lastFlip, pc>>

SetSunsetTime(time) ==
    /\ pc = "record" /\ kind = "settings"
    /\ settings' = set_sunset_time(settings, time, now)
    /\ ret' = Call("set_sunset_time", time, "unit")
    /\ UNCHANGED <<overflow_checks, kind, state, now, data, decoded, lastFlip, pc>>

SetSunriseTime(time) ==
    /\ pc = "record" /\ kind = "settings"
    /\ settings' = set_sunrise_time(settings, time, now)
    /\ ret' = Call("set_sunrise_time", time, "unit")
    /\ UNCHANGED <<overflow_checks, kind, state, now, data, decoded, lastFlip, pc>>

Enable ==
    /\ pc = "record" /\ kind = "state"
    /\ LET r == enable(state, now) IN
       /\ state' = r.self
       /\ ret' = Call("enable", "none", r.out)
       /\ lastFlip' = IF r.out THEN "enable" ELSE lastFlip
    /\ UNCHANGED <<overflow_checks, kind, settings, now, data, decoded, pc>>

Disable ==
    /\ pc = "record" /\ kind = "state"
    /\ LET r == disable(state, now) IN
       /\ state' = r.self
       /\ ret' = Call("disable", "none", r.out)
       /\ lastFlip' = IF r.out THEN "disable" ELSE lastFlip
    /\ UNCHANGED <<overflow_checks, kind, settings, now, data, decoded, pc>>

\* the bytes a store can hand to the decoder in place of an encoding: the encoding
\* cut short, with one byte changed, or with one byte added
PokeBytes == { 0, 14, 16, 46, 127, 255 }

Truncate(n) ==
    /\ pc = "buffer"
    /\ n < Len(data)
    /\ data' = SubSeq(data, 1, n)
    /\ pc' = "tampered"
    /\ UNCHANGED <<overflow_checks, kind, settings, state, now, decoded, ret, lastFlip>>

Poke(i, b) ==
    /\ pc = "buffer"
    /\ i < Len(data)
    /\ At(data, i) # b
    /\ data' = [data EXCEPT ![i + 1] = b]
    /\ pc' = "tampered"
    /\ UNCHANGED <<overflow_checks, kind, settings, state, now, decoded, ret, lastFlip>>

Extend(b) ==
    /\ pc = "buffer"
    /\ data' = Append(data, b)
    /\ pc' = "tampered"
    /\ UNCHANGED <<overflow_checks, kind, settings, state, now, decoded, ret, lastFlip>>

----------------------------------------------------------------------------
(* Round trips and test vectors *)

Ok(v) == [tag |-> "Ok", value |-> v]

\* C1: every valid Settings record (timestamp below 2^32, any mode, 13-bit color
\* temperature, four times without seconds) is serialized without a panic, and
\* deserializing its serialization succeeds and returns an equal record.
C1_SettingsRoundTrip ==
    /\ pc # "panicked"
    /\ pc = "decoded" => decoded = Ok(settings)

C1_Witness ==
    /\ pc = "decoded"
    /\ decoded = Ok(settings)
    /\ settings.timestamp = <<15, 268435455>>
    /\ settings.schedule_mode = "SetHours"
    /\ settings.color_temperature = 8191
    /\ settings.start_time = T(14, 46)
    /\ settings.end_time = T(0, 0)

\* C2: every State record (timestamp below 2^32, either is_enabled, any payload) is
\* serialized without a panic, and deserializing its serialization succeeds and
\* returns an equal record.
C2_StateRoundTrip ==
    /\ pc # "panicked"
    /\ pc = "decoded" => decoded = Ok(state)

\* C3: the Settings record of the test (1742540908, SetHours, 2790, 01:15, 00:00,
\* 19:23, 07:12) serializes to exactly the 60 bytes of the test, and deserializing
\* those 60 bytes returns exactly that record.
C3_SettingsTestVector ==
    /\ (settings = TestSettings /\ pc \in {"buffer", "decoded"})
            => (data = TestSettingsBytes /\ Len(data) = 60)
    /\ (data = TestSettingsBytes /\ pc = "decoded") => decoded = Ok(TestSettings)

C3_Witness ==
    /\ pc = "decoded"
    /\ data = TestSettingsBytes
    /\ settings = TestSettings
    /\ decoded = Ok(TestSettings)

\* the encoding of state with is_enabled set to en, or <<>> when serialization panics
EncodingWith(en) ==
    LET r == State_serialize_to_bytes([state EXCEPT !.is_enabled = en]) IN
    IF r.tag = "Ok" THEN r.bytes ELSE <<>>

\* C4: for every State record serialize_to_bytes returns an encoding that has the
\* marker 10 00 right after the inner header exactly when is_enabled is true, the
\* payload following the inner header directly otherwise; and the encodings of the
\* two records that differ only in is_enabled differ exactly by the two marker bytes
\* and by the remaining-length byte.
C4_EnabledMarker ==
    /\ pc # "panicked"
    /\ pc = "buffer" =>
        /\ Slice(data, 19, 23) = STRUCT_HEADER_BYTES
        /\ state.is_enabled =>
              /\ Slice(data, 23, 25) = NIGHTLIGHT_STATE_ENABLED_BYTES
              /\ Slice(data, 25, Len(data) - 4) = state.remaining_data
        /\ ~state.is_enabled => Slice(data, 23, Len(data) - 4) = state.remaining_data
        /\ LET e == EncodingWith(TRUE)
               d == EncodingWith(FALSE)
           IN  /\ Len(e) = Len(d) + 2
               /\ Slice(e, 0, 18) = Slice(d, 0, 18)
               /\ At(e, 18) # At(d, 18)
               /\ Slice(e, 19, 23) = Slice(d, 19, 23)
               /\ Slice(e, 23, 25) = NIGHTLIGHT_STATE_ENABLED_BYTES
               /\ Slice(e, 25, Len(e)) = Slice(d, 23, Len(d))

\* C5: the State record of the test (1742670473, payload D0 0A 02 C6 14 A9 F6 E2 D3
\* EF EA E7 ED 01) serializes to BYTES_DISABLED when disabled and to BYTES_ENABLED
\* when enabled, and deserializing the two constants returns those two records.
C5_StateTestVectors ==
    /\ (state = TestStateDisabled /\ pc \in {"buffer", "decoded"}) => data = BYTES_DISABLED
    /\ (state = TestStateEnabled /\ pc \in {"buffer", "decoded"}) => data = BYTES_ENABLED
    /\ (data = BYTES_DISABLED /\ pc = "decoded") => decoded = Ok(TestStateDisabled)
    /\ (data = BYTES_ENABLED /\ pc = "decoded") => decoded = Ok(TestStateEnabled)

----------------------------------------------------------------------------
(* Specifications of the mutators and of the decoders on arbitrary buffers *)

\* records HKCU can hold: every one is the decoding of its own encoding
DecodableSettings(S) ==
    { r \in S : LET e == Settings_serialize_to_bytes(r) IN
                e.tag = "Ok" /\ Settings_deserialize_from_bytes(e.bytes) = Ok(r) }

DecodableStates(S) ==
    { r \in S : LET e == State_serialize_to_bytes(r) IN
                e.tag = "Ok" /\ State_deserialize_from_bytes(e.bytes) = Ok(r) }

MutatedSettingsSamples ==
    { NightlightSettings(<<6, 131928172>>, m, ct, T(0, 0), T(0, 0), T(0, 0), T(0, 0)) :
        m \in {"Off", "SetHours"}, ct \in {0, 2790} }

(* a decoded Settings record under any sequence of setter calls *)
InitSettingsMutators ==
    /\ InitCommon
    /\ kind = "settings"
    /\ settings \in DecodableSettings(MutatedSettingsSamples)
    /\ state = TestStateDisabled

NextSettingsMutators ==
    \/ Tick
    \/ \E mode \in ScheduleMode : SetMode(mode)
    \/ \E ct \in ColorTemperatureArgs : SetColorTemperature(ct)
    \/ \E time \in TimeArgs : SetStartTime(time)
    \/ \E time \in TimeArgs : SetEndTime(time)
    \/ \E time \in TimeArgs : SetSunsetTime(time)
    \/ \E time \in TimeArgs : SetSunriseTime(time)

SpecSettingsMutators == InitSettingsMutators /\ [][NextSettingsMutators]_vars

(* a decoded State record under any sequence of enable/disable calls, then encoded
   and decoded again *)
LifecycleStateSamples ==
    { NightlightState(ts, en, rd) :
        ts \in { <<0, 0>>, <<6, 131928172>> }, en \in BOOLEAN,
        rd \in { <<>>, TestPayload } \cup LongPayloads }

InitStateLifecycle ==
    /\ InitCommon
    /\ kind = "state"
    /\ settings = TestSettings
    /\ state \in DecodableStates(LifecycleStateSamples)

NextStateLifecycle ==
    \/ Tick
    \/ Enable
    \/ Disable
    \/ SerializeState
    \/ DeserializeState

SpecStateLifecycle == InitStateLifecycle /\ [][NextStateLifecycle]_vars

(* encodings of either kind, damaged by the store, then decoded *)
DecodedSettingsSamples ==
    { TestSettings,
      NightlightSettings(<<0, 0>>, "Off", 1200, T(0, 0), T(0, 46), T(14, 0), T(23, 59)),
      NightlightSettings(<<15, 268435455>>, "SunsetToSunrise", 6500,
                         T(14, 46), T(0, 0), T(0, 0), T(0, 0)) }

DecodedStateSamples ==
    { TestStateDisabled, TestStateEnabled,
      NightlightState(<<0, 0>>, FALSE, <<>>), NightlightState(<<0, 0>>, TRUE, <<>>) }

InitDecode ==
    /\ InitCommon
    /\ \/ kind = "settings" /\ settings \in DecodedSettingsSamples /\ state = TestStateDisabled
       \/ kind = "state" /\ settings = TestSettings /\ state \in DecodedStateSamples

NextDecode ==
    \/ SerializeSettings
    \/ SerializeState
    \/ \E n \in 0..Len(data) : Truncate(n)
    \/ \E i \in 0..Len(data), b \in PokeBytes : Poke(i, b)
    \/ \E b \in PokeBytes : Extend(b)
    \/ DeserializeSettings
    \/ DeserializeState

SpecDecode == InitDecode /\ [][NextDecode]_vars

----------------------------------------------------------------------------
(* Decoding damaged buffers *)

\* a valid outer header and timestamp block, and a remaining-length byte after them
HasFront(d) ==
    /\ Len(d) >= 19
    /\ Slice(d, 0, 4) = STRUCT_HEADER_BYTES
    /\ Slice(d, 4, 8) = TIMESTAMP_HEADER_BYTES
    /\ Slice(d, 8, 10) = TIMESTAMP_PREFIX_BYTES
    /\ Slice(d, 15, 18) = TIMESTAMP_SUFFIX_BYTES

RemainingLengthByte(d) == At(d, 18)

\* the bytes from the inner header through the byte before the 4-byte footer
BodySize(d) == Len(d) - 19 - 4

\* C6 as stated: a buffer of either kind with a valid outer header and timestamp
\* block whose remaining-length byte differs from its body size (the bytes from the
\* inner header through the byte before the footer) is decoded to the StructEnd error.
C6_LengthMismatchIsStructEnd ==
    (pc = "decoded" /\ HasFront(data) /\ RemainingLengthByte(data) # BodySize(data))
        => decoded = Err("StructEnd")

\* C6 amended: the remaining-length byte counts itself too.  A buffer of either kind
\* with a valid outer header and timestamp block whose remaining-length byte differs
\* from its body size plus one is decoded to the StructEnd error, and to no record.
C6_LengthMismatchPlusOneIsStructEnd ==
    (pc = "decoded" /\ HasFront(data) /\ RemainingLengthByte(data) # BodySize(data) + 1)
        => decoded = Err("StructEnd")

C6_Witness ==
    /\ pc = "decoded"
    /\ kind = "settings"
    /\ HasFront(data)
    /\ Len(data) = 60
    /\ RemainingLengthByte(data) = 46
    /\ decoded = Err("StructEnd")

\* C7: whatever the buffer, each decoder returns a record or a DeserializationError;
\* no buffer makes it panic on a slice or an index out of range.
C7_DecodeNeverPanics ==
    pc = "decoded" => decoded.tag \in {"Ok", "Err"}

----------------------------------------------------------------------------
(* The mutators *)

SettingsSetters ==
    { "set_mode", "set_color_temperature", "set_start_time", "set_end_time",
      "set_sunset_time", "set_sunrise_time" }

FieldOf(self, op) ==
    CASE op = "set_mode" -> self.schedule_mode
      [] op = "set_color_temperature" -> self.color_temperature
      [] op = "set_start_time" -> self.start_time
      [] op = "set_end_time" -> self.end_time
      [] op = "set_sunset_time" -> self.sunset_time
      [] op = "set_sunrise_time" -> self.sunrise_time

\* C8: a setter called with the value the record already holds changes nothing, the
\* timestamp included, whatever the clock shows; and a setter call repeated with the
\* same argument leaves the timestamp as the first call left it.
C8_SetterNoOp ==
    [][ (Called /\ ret'.op \in SettingsSetters) =>
          /\ ret'.arg = FieldOf(settings, ret'.op) => settings' = settings
          /\ (ret.op = ret'.op /\ ret.arg = ret'.arg)
                => settings'.timestamp = settings.timestamp ]_vars

\* the last call was a no-op made after the clock had advanced: a call that changes
\* a field leaves timestamp = the clock at the call
C8_Witness ==
    /\ ret.op = "set_start_time"
    /\ ret.arg = settings.start_time
    /\ ret.arg = NaiveTime(23, 59, 30)
    /\ ret.at # ClockStart
    /\ settings.timestamp # ret.at

Flips == { "enable", "disable" }

\* C9: enable() returns true exactly when is_enabled was false, disable() exactly
\* when it was true; after enable() is_enabled is true, after disable() false; the
\* timestamp changes only in a call that returns true; and a call that returns true
\* is never the same operation as the previous call that returned true.
C9_EnableDisable ==
    [][ /\ (Called /\ ret'.op = "enable")
              => (ret'.out = ~state.is_enabled /\ state'.is_enabled)
        /\ (Called /\ ret'.op = "disable")
              => (ret'.out = state.is_enabled /\ ~state'.is_enabled)
        /\ state'.timestamp # state.timestamp
              => (Called /\ ret'.op \in Flips /\ ret'.out)
        /\ (Called /\ ret'.op \in Flips /\ ret'.out) => ret'.op # lastFlip ]_vars

C9_Witness ==
    /\ ret.op = "disable"
    /\ ret.out = TRUE
    /\ lastFlip = "disable"
    /\ ~state.is_enabled
    /\ state.timestamp = ret.at
    /\ ret.at # ClockStart

\* C10 as stated: set_color_temperature returns the InvalidColorTemperature error for
\* every requested value outside 1200..6500 and Ok only for values inside it.
C10_RejectsEveryValueOutOfRange ==
    ret.op = "set_color_temperature" =>
        /\ ret.out.tag = "Ok" <=> (ret.arg >= 1200 /\ ret.arg <= 6500)
        /\ ret.out.tag # "Ok" =>
              ret.out = [tag |-> "Err", err |-> "InvalidColorTemperature", value |-> ret.arg]

\* C10 amended: the comparison with the current value comes first.  For a record
\* decode can produce, set_color_temperature returns the InvalidColorTemperature
\* error for every requested value outside 1200..6500 that differs from the record's
\* current color temperature, and Ok only for a value inside 1200..6500 or equal to
\* the current one.
C10_RejectsOutOfRangeUnlessCurrent ==
    [][ (Called /\ ret'.op = "set_color_temperature") =>
          /\ ret'.out.tag = "Ok" <=>
                \/ (ret'.arg >= 1200 /\ ret'.arg <= 6500)
                \/ ret'.arg = settings.color_temperature
          /\ ret'.out.tag # "Ok" =>
                ret'.out = [tag |-> "Err", err |-> "InvalidColorTemperature",
                            value |-> ret'.arg] ]_vars

C10_Witness ==
    /\ ret.op = "set_color_temperature"
    /\ ret.arg = 6501
    /\ ret.out = [tag |-> "Err", err |-> "InvalidColorTemperature", value |-> 6501]
    /\ settings.color_temperature = 0

\* C11: whenever set_color_temperature returns an error, the record is what it was
\* before the call: color_temperature, timestamp, schedule_mode and the four times.
C11_RejectionLeavesRecord ==
    [][ (Called /\ ret'.op = "set_color_temperature" /\ ret'.out.tag = "Err") =>
          /\ settings'.color_temperature = settings.color_temperature
          /\ settings'.timestamp = settings.timestamp
          /\ settings'.schedule_mode = settings.schedule_mode
          /\ settings'.start_time = settings.start_time
          /\ settings'.end_time = settings.end_time
          /\ settings'.sunset_time = settings.sunset_time
          /\ settings'.sunrise_time = settings.sunrise_time ]_vars

\* a request below the domain was rejected after the clock had advanced, on a
\* record holding a valid color temperature
C11_Witness ==
    /\ ret.op = "set_color_temperature"
    /\ ret.arg = 1199
    /\ ret.out.tag = "Err"
    /\ ret.at # ClockStart
    /\ settings.color_temperature = 2790
    /\ settings.timestamp # ret.at

----------------------------------------------------------------------------
(* Both records under their mutators *)

MutatedStateSamples ==
    { NightlightState(<<6, 131928172>>, en, rd) :
        en \in BOOLEAN, rd \in { <<>>, TestPayload } }

InitMutators ==
    /\ InitCommon
    /\ \/ /\ kind = "settings"
          /\ settings \in DecodableSettings(MutatedSettingsSamples)
          /\ state = TestStateDisabled
       \/ /\ kind = "state"
          /\ settings = TestSettings
          /\ state \in DecodableStates(MutatedStateSamples)

NextMutators ==
    \/ NextSettingsMutators
    \/ Enable
    \/ Disable

SpecMutators == InitMutators /\ [][NextMutators]_vars

\* the values a setter accepts
ValidArg(op, arg) ==
    op = "set_color_temperature" => (arg >= 1200 /\ arg <= 6500)

\* C12: a setter called with a valid value that differs from the field's current
\* value leaves the field equal to that value and the timestamp equal to the wall
\* clock at the call (enable and disable likewise when the flag differs); and the
\* timestamp of a record changes only in a call that changed a field.
C12_ChangeRefreshesTimestamp ==
    [][ /\ (/\ Called /\ ret'.op \in SettingsSetters
            /\ ret'.arg # FieldOf(settings, ret'.op)
            /\ ValidArg(ret'.op, ret'.arg))
              => /\ FieldOf(settings', ret'.op) = ret'.arg
                 /\ settings'.timestamp = now
        /\ (Called /\ ret'.op = "enable" /\ ~state.is_enabled)
              => (state'.is_enabled /\ state'.timestamp = now)
        /\ (Called /\ ret'.op = "disable" /\ state.is_enabled)
              => (~state'.is_enabled /\ state'.timestamp = now)
        /\ settings'.timestamp # settings.timestamp
              => /\ Called /\ ret'.op \in SettingsSetters
                 /\ FieldOf(settings', ret'.op) # FieldOf(settings, ret'.op)
        /\ state'.timestamp # state.timestamp
              => /\ Called /\ ret'.op \in Flips
                 /\ state'.is_enabled # state.is_enabled ]_vars

\* set_sunrise_time changed the field after the clock had advanced, and the record
\* carries the clock of that call
C12_Witness ==
    /\ ret.op = "set_sunrise_time"
    /\ ret.arg = NaiveTime(23, 59, 30)
    /\ settings.sunrise_time = ret.arg
    /\ ret.at # ClockStart
    /\ settings.timestamp = ret.at

----------------------------------------------------------------------------
(* win-nightlight-cli: main.rs, one command from the read to the write-back *)

\* main.rs reads a bool from set_mode: whether the mode changed
set_mode_reporting(self, mode, clock) ==
    [self |-> set_mode(self, mode, clock), out |-> self.schedule_mode # mode]

\* main.rs reads a Result<bool, _> from set_color_temperature: Ok(changed) or the error
set_color_temperature_reporting(self, color_temperature, clock) ==
    LET r == set_color_temperature(self, color_temperature, clock) IN
    [self |-> r.self,
     out |-> IF r.out.tag = "Ok"
             THEN [tag |-> "Ok", value |-> self.color_temperature # color_temperature]
             ELSE r.out]

\* set_nightlight_settings(&settings): the record is serialized, then handed to the
\* registry, which takes it (io) or returns an error
set_nightlight_settings(self, io) ==
    IF Settings_serialize_to_bytes(self).tag = "Panic" THEN "panicked"
    ELSE IF io.settings THEN "written" ELSE "failed"

set_nightlight_state(self, io) ==
    IF State_serialize_to_bytes(self).tag = "Panic" THEN "panicked"
    ELSE IF io.state THEN "written" ELSE "failed"

\* a bool a mutator returned
Ret(b) == IF b THEN "true" ELSE "false"

\* what a run of main leaves: the two structs, the store calls made in order with
\* what came of the last one, and what the mutators returned ("none": not called)
Outcome(s, st, writes, last, changed, enabled, disabled) ==
    [settings |-> s, state |-> st, writes |-> writes, last |-> last,
     changed |-> changed, enabled |-> enabled, disabled |-> disabled]

\* enum Schedule, as from_str reads it
Schedule == { "off", "solar", "manual" }

\* Commands::Temp { temperature }
main_temp(s, st, temperature, clock, io) ==
    LET r == set_color_temperature_reporting(s, temperature, clock) IN
    IF r.out.tag = "Err" THEN Outcome(r.self, st, <<>>, "error", "none", "none", "none")
    ELSE IF r.out.value
    THEN Outcome(r.self, st, <<"settings">>, set_nightlight_settings(r.self, io),
                 "true", "none", "none")
    ELSE Outcome(r.self, st, <<>>, "none", "false", "none", "none")

\* Commands::Schedule { mode }
main_schedule(s, st, mode, clock, io) ==
    IF mode = "off"
    THEN LET r == set_mode_reporting(s, "Off", clock) IN
         IF r.out
         THEN Outcome(r.self, st, <<"settings">>, set_nightlight_settings(r.self, io),
                      "true", "none", "none")
         ELSE Outcome(r.self, st, <<>>, "none", "false", "none", "none")
    ELSE LET r == set_mode_reporting(s, IF mode = "solar" THEN "SunsetToSunrise"
                                        ELSE "SetHours", clock) IN
         IF ~r.out THEN Outcome(r.self, st, <<>>, "none", "false", "none", "none")
         ELSE LET e == enable(st, clock) IN
              IF e.out /\ set_nightlight_state(e.self, io) # "written"
              THEN Outcome(r.self, e.self, <<"state">>, set_nightlight_state(e.self, io),
                           "true", "true", "none")
              ELSE Outcome(r.self, e.self,
                           (IF e.out THEN <<"state">> ELSE <<>>) \o <<"settings">>,
                           set_nightlight_settings(r.self, io), "true", Ret(e.out), "none")

\* Commands::On
main_on(s, st, clock, io) ==
    LET e == enable(st, clock) IN
    IF e.out
    THEN Outcome(s, e.self, <<"state">>, set_nightlight_state(e.self, io),
                 "none", "true", "none")
    ELSE Outcome(s, e.self, <<>>, "none", "none", "false", "none")

\* writes the State record whatever disable() returned
main_off_always_writes(s, st, clock, io) ==
    LET r == set_mode_reporting(s, "Off", clock) IN
    IF r.out /\ set_nightlight_settings(r.self, io) # "written"
    THEN Outcome(r.self, st, <<"settings">>, set_nightlight_settings(r.self, io),
                 "true", "none", "none")
    ELSE LET d == disable(st, clock) IN
         Outcome(r.self, d.self, (IF r.out THEN <<"settings">> ELSE <<>>) \o <<"state">>,
                 set_nightlight_state(d.self, io), Ret(r.out), "none", Ret(d.out))

\* Commands::Off
main_off(s, st, clock, io) ==
    LET r == set_mode_reporting(s, "Off", clock) IN
    IF r.out /\ set_nightlight_settings(r.self, io) # "written"
    THEN Outcome(r.self, st, <<"settings">>, set_nightlight_settings(r.self, io),
                 "true", "none", "none")
    ELSE LET d == disable(st, clock) IN
         IF d.out
         THEN Outcome(r.self, d.self,
                      (IF r.out THEN <<"settings">> ELSE <<>>) \o <<"state">>,
                      set_nightlight_state(d.self, io), Ret(r.out), "none", "true")
         ELSE Outcome(r.self, d.self, IF r.out THEN <<"settings">> ELSE <<>>,
                      IF r.out THEN "written" ELSE "none", Ret(r.out), "none", "false")

\* Commands::Status prints the two records
main_status(s, st) == Outcome(s, st, <<>>, "none", "none", "none", "none")

\* fn main: the command decides the branch
main(command, s, st, clock, io) ==
    CASE command.cmd = "temp" -> main_temp(s, st, command.temperature, clock, io)
      [] command.cmd = "schedule" -> main_schedule(s, st, command.mode, clock, io)
      [] command.cmd = "on" -> main_on(s, st, clock, io)
      [] command.cmd = "off" -> main_off(s, st, clock, io)
      [] command.cmd = "status" -> main_status(s, st)

CliTemperatures == { 0, 1199, 2790, 6500 }

Commands ==
    { [cmd |-> "temp", temperature |-> t] : t \in CliTemperatures }
    \cup { [cmd |-> "schedule", mode |-> m] : m \in Schedule }
    \cup { [cmd |-> "on"], [cmd |-> "off"], [cmd |-> "status"] }

\* whether the registry takes a write of either record
RegistryAnswers == [settings : BOOLEAN, state : BOOLEAN]

\* the store call of that record was made and the registry took it
Written(o, what) ==
    \E k \in 1..Len(o.writes) :
        o.writes[k] = what /\ (k < Len(o.writes) \/ o.last = "written")

\* one run of the CLI: settings and state are what the store holds, read at the
\* start of main; a record written is read back by the next run
Main(command, io) ==
    /\ pc = "record"
    /\ \E o \in { main(command, settings, state, now, io) } :
       \E ns \in { IF Written(o, "settings")
                    THEN Settings_deserialize_from_bytes(
                             Settings_serialize_to_bytes(o.settings).bytes)
                    ELSE Ok(settings) } :
       \E nst \in { IF Written(o, "state")
                     THEN State_deserialize_from_bytes(
                              State_serialize_to_bytes(o.state).bytes)
                     ELSE Ok(state) } :
           /\ settings' = IF ns.tag = "Ok" THEN ns.value ELSE o.settings
           /\ state' = IF nst.tag = "Ok" THEN nst.value ELSE o.state
           /\ pc' = IF ns.tag = "Ok" /\ nst.tag = "Ok" THEN "record" ELSE "unreadable"
           /\ ret' = Call("main", command, o)
    /\ UNCHANGED <<overflow_checks, kind, now, data, decoded, lastFlip>>

\* the State record of the tests, disabled or enabled
CliStateSamples ==
    { NightlightState(<<6, 131928172>>, en, TestPayload) : en \in BOOLEAN }

InitCli ==
    /\ InitCommon
    /\ kind = "state"
    /\ settings \in DecodableSettings(MutatedSettingsSamples)
    /\ state \in DecodableStates(CliStateSamples)

NextCli ==
    \/ Tick
    \/ \E command \in Commands, io \in RegistryAnswers : Main(command, io)

SpecCli == InitCli /\ [][NextCli]_vars

Calls(o) == { o.writes[k] : k \in 1..Len(o.writes) }

\* the command asks for what the store already holds
RequestsStored(command, s, st) ==
    CASE command.cmd = "temp" -> command.temperature = s.color_temperature
      [] command.cmd = "schedule" ->
            s.schedule_mode = (CASE command.mode = "off" -> "Off"
                                 [] command.mode = "solar" -> "SunsetToSunrise"
                                 [] command.mode = "manual" -> "SetHours")
      [] command.cmd = "on" -> st.is_enabled
      [] command.cmd = "off" -> s.schedule_mode = "Off" /\ ~st.is_enabled
      [] command.cmd = "status" -> TRUE

----------------------------------------------------------------------------
(* Time blocks on their own *)

\* every hour and minute of the day; the seconds are 0 or not
TimeBlockInputs ==
    { NaiveTime(h, m, sec) : h \in 0..23, m \in 0..59, sec \in {0, 30} }

\* NightlightSettings::naive_time_to_bytes(time, time_type)
EncodeTimeBlock(time, time_type) ==
    /\ pc = "record"
    /\ kind = "timeblock"
    /\ data' = naive_time_to_bytes(time, time_type)
    /\ ret' = Call("naive_time_to_bytes", [time |-> time, time_type |-> time_type], "unit")
    /\ pc' = "buffer"
    /\ UNCHANGED <<overflow_checks, kind, settings, state, now, decoded, lastFlip>>

\* NightlightSettings::parse_time_type_block(&data, 0, time_type)
DecodeTimeBlock ==
    /\ pc = "buffer"
    /\ kind = "timeblock"
    /\ decoded' = parse_time_type_block(data, 0, ret.arg.time_type)
    /\ pc' = "decoded"
    /\ UNCHANGED <<overflow_checks, kind, settings, state, now, data, ret, lastFlip>>

InitTimeBlock ==
    /\ InitCommon
    /\ kind = "timeblock"
    /\ settings = TestSettings
    /\ state = TestStateDisabled

NextTimeBlock ==
    \/ \E time \in TimeBlockInputs, time_type \in TimeBlockType :
          EncodeTimeBlock(time, time_type)
    \/ DecodeTimeBlock

SpecTimeBlock == InitTimeBlock /\ [][NextTimeBlock]_vars

\* the block of a time under an identity is in data
TimeBlockEncoded == kind = "timeblock" /\ pc \in {"buffer", "decoded"}

\* C14: for each identity and each hour 0-23 and minute 0-59 the block is the
\* identity's two prefix bytes, then 0E and the hour iff hour > 0, then 2E and the
\* minute iff minute > 0, then 00; so no hour tag for hour 0, no minute tag for
\* minute 0, and the terminal byte always.
C14_TimeBlockCanonical ==
    TimeBlockEncoded =>
        LET hour == ret.arg.time.hour
            minute == ret.arg.time.minute
            n == Len(data)
            hourPart == IF hour > 0 THEN 2 ELSE 0
            minutePart == IF minute > 0 THEN 2 ELSE 0
        IN  /\ n = 2 + hourPart + minutePart + 1
            /\ SubSeq(data, 1, 2) =
                  (CASE ret.arg.time_type = "ScheduleStart" -> <<202, 20>>
                     [] ret.arg.time_type = "ScheduleEnd" -> <<202, 30>>
                     [] ret.arg.time_type = "Sunset" -> <<202, 50>>
                     [] ret.arg.time_type = "Sunrise" -> <<202, 60>>)
            /\ hour > 0 => (data[3] = 14 /\ data[4] = hour)
            /\ minute > 0 => (data[3 + hourPart] = 46 /\ data[4 + hourPart] = minute)
            /\ data[n] = 0

\* 00:46 under the sunrise identity: no hour tag, the minute tag, the terminal byte
C14_Witness ==
    /\ TimeBlockEncoded
    /\ ret.arg.time_type = "Sunrise"
    /\ ret.arg.time = NaiveTime(0, 46, 0)
    /\ data = <<202, 60, 46, 46, 0>>

\* C15: decoding the block of (hour, minute) under its identity returns the same
\* hour and minute and the position just past the terminal byte.
C15_TimeBlockRoundTrip ==
    (kind = "timeblock" /\ pc = "decoded") =>
        decoded = [tag |-> "Ok", hours |-> ret.arg.time.hour,
                   minutes |-> ret.arg.time.minute, pos |-> Len(data)]

\* 14:46, whose bytes are the two tags, came back under the schedule-end identity
C15_Witness ==
    /\ kind = "timeblock"
    /\ pc = "decoded"
    /\ ret.arg.time_type = "ScheduleEnd"
    /\ data = <<202, 30, 14, 14, 46, 46, 0>>
    /\ decoded.tag = "Ok"
    /\ decoded.hours = 14
    /\ decoded.minutes = 46
    /\ decoded.pos = 7

----------------------------------------------------------------------------
(* Timestamps on their own *)

\* the low 28 bits: the ends of each 7-bit group, and the timestamps of the tests
TimestampLowSamples ==
    { 0, 1, 127, 128, 16383, 16384, 2097151, 2097152, 268435455,
      131928172, 132057737 }

\* bits 28 and up: every value below 2^32, and what the fifth byte can hold beyond
TimestampHighSamples == 0..15 \cup { 16, 127, 128, 255 }

\* the timestamps below 2^32, and beyond them those a record read from the store
\* can hold
TimestampInputs ==
    { t \in TimestampHighSamples \X TimestampLowSamples :
        \/ t[1] <= 15
        \/ NightlightState(t, FALSE, <<>>) \in
              DecodableStates({ NightlightState(t, FALSE, <<>>) }) }

\* timestamp_to_bytes(timestamp)
EncodeTimestamp(timestamp) ==
    /\ pc = "record"
    /\ kind = "timestamp"
    /\ data' = timestamp_to_bytes(timestamp)
    /\ ret' = Call("timestamp_to_bytes", timestamp, "unit")
    /\ pc' = "buffer"
    /\ UNCHANGED <<overflow_checks, kind, settings, state, now, decoded, lastFlip>>

\* timestamp_from_bytes(data)
DecodeTimestamp ==
    /\ pc = "buffer"
    /\ kind = "timestamp"
    /\ decoded' = Ok(timestamp_from_bytes(data))
    /\ pc' = "decoded"
    /\ UNCHANGED <<overflow_checks, kind, settings, state, now, data, ret, lastFlip>>

InitTimestamp ==
    /\ InitCommon
    /\ kind = "timestamp"
    /\ settings = TestSettings
    /\ state = TestStateDisabled

NextTimestamp ==
    \/ \E timestamp \in TimestampInputs : EncodeTimestamp(timestamp)
    \/ DecodeTimestamp

SpecTimestamp == InitTimestamp /\ [][NextTimestamp]_vars

\* C16: for every timestamp t with 0 <= t <= 2^32 - 1,
\* timestamp_from_bytes(timestamp_to_bytes(t)) = t.
C16_TimestampRoundTrip ==
    (kind = "timestamp" /\ pc = "decoded" /\ ret.arg[1] <= 15) =>
        decoded = Ok(ret.arg)

\* 2^32 - 1 came back
C16_Witness ==
    /\ kind = "timestamp"
    /\ pc = "decoded"
    /\ ret.arg = <<15, 268435455>>
    /\ data = <<255, 255, 255, 255, 15>>
    /\ decoded = Ok(<<15, 268435455>>)

\* C17: for every timestamp the record can hold, timestamp_to_bytes gives 5 bytes;
\* bytes 0-3 carry bits 0-6, 7-13, 14-20 and 21-27 with the top bit set; byte 4
\* carries bits 28-31 and is below 0x80.
C17_TimestampLayout ==
    (kind = "timestamp" /\ pc \in {"buffer", "decoded"}) =>
        LET hi == ret.arg[1]
            lo == ret.arg[2]
        IN  /\ Len(data) = 5
            /\ data[1] = 128 + (lo % 128)
            /\ data[2] = 128 + ((lo \div 128) % 128)
            /\ data[3] = 128 + ((lo \div 16384) % 128)
            /\ data[4] = 128 + ((lo \div 2097152) % 128)
            /\ data[5] % 16 = hi % 16
            /\ data[5] < 128

----------------------------------------------------------------------------
(* Color temperatures on their own *)

\* every 13-bit value
KelvinInputs == 0..8191

\* every first byte, and second bytes at the ends of the two ranges
KelvinByteInputs == (0..255) \X { 0, 1, 43, 127, 128, 255 }

\* kelvin_to_bytes(color_temperature)
EncodeKelvin(color_temperature) ==
    /\ pc = "record"
    /\ kind = "kelvin"
    /\ data' = kelvin_to_bytes(color_temperature)
    /\ ret' = Call("kelvin_to_bytes", color_temperature, "unit")
    /\ pc' = "buffer"
    /\ UNCHANGED <<overflow_checks, kind, settings, state, now, decoded, lastFlip>>

\* kelvin_from_bytes(data) on the bytes kelvin_to_bytes gave
DecodeKelvin ==
    /\ pc = "buffer"
    /\ kind = "kelvin"
    /\ decoded' = kelvin_from_bytes(data)
    /\ pc' = "decoded"
    /\ UNCHANGED <<overflow_checks, kind, settings, state, now, data, ret, lastFlip>>

\* kelvin_from_bytes(bytes) on bytes read from a buffer
DecodeKelvinBytes(bytes) ==
    /\ pc = "record"
    /\ kind = "kelvin"
    /\ data' = bytes
    /\ decoded' = kelvin_from_bytes(bytes)
    /\ ret' = Call("kelvin_from_bytes", bytes, "unit")
    /\ pc' = "decoded"
    /\ UNCHANGED <<overflow_checks, kind, settings, state, now, lastFlip>>

\* kelvin_to_bytes of the value kelvin_from_bytes returned
ReencodeKelvin ==
    /\ pc = "decoded"
    /\ kind = "kelvin"
    /\ ret.op = "kelvin_from_bytes"
    /\ decoded.tag = "Ok"
    /\ data' = kelvin_to_bytes(decoded.value)
    /\ pc' = "reencoded"
    /\ UNCHANGED <<overflow_checks, kind, settings, state, now, decoded, ret, lastFlip>>

InitKelvin ==
    /\ InitCommon
    /\ kind = "kelvin"
    /\ settings = TestSettings
    /\ state = TestStateDisabled

NextKelvin ==
    \/ \E color_temperature \in KelvinInputs : EncodeKelvin(color_temperature)
    \/ DecodeKelvin
    \/ \E bytes \in KelvinByteInputs : DecodeKelvinBytes(<<bytes[1], bytes[2]>>)
    \/ ReencodeKelvin

SpecKelvin == InitKelvin /\ [][NextKelvin]_vars

\* C18: for every 13-bit value v, kelvin_to_bytes(v) has byte 0 with its top bit set
\* and bit 0 unset and byte 1 with its top bit unset, and kelvin_from_bytes of it is v.
C18_KelvinRoundTrip ==
    (kind = "kelvin" /\ ret.op = "kelvin_to_bytes") =>
        /\ Len(data) = 2
        /\ data[1] >= 128 /\ data[1] % 2 = 0
        /\ data[2] < 128
        /\ pc = "decoded" => decoded = Ok(ret.arg)

\* 8191, the largest 13-bit value, came back
C18_Witness ==
    /\ kind = "kelvin"
    /\ ret.op = "kelvin_to_bytes"
    /\ ret.arg = 8191
    /\ data = <<254, 127>>
    /\ pc = "decoded"
    /\ decoded = Ok(8191)

\* C19: for every pair of bytes, kelvin_from_bytes yields a value and kelvin_to_bytes
\* of that value is the pair again.
C19_KelvinBytesRoundTrip ==
    (kind = "kelvin" /\ ret.op = "kelvin_from_bytes") =>
        /\ pc = "decoded" => decoded.tag = "Ok"
        /\ pc = "reencoded" => data = ret.arg

----------------------------------------------------------------------------
(* The remaining-length byte of encodings, bodies of 255 bytes and more included *)

\* enabled State records whose body is 4 + 2 + 249 = 255 and 4 + 2 + 250 = 256 bytes:
\* what enable() makes of a disabled record decoded with such a payload
LongStateSamples ==
    { NightlightState(<<6, 131928172>>, TRUE, [i \in 1..n |-> 208]) : n \in {249, 250} }

InitLength ==
    \/ InitDecode
    \/ /\ InitCommon
       /\ kind = "state"
       /\ settings = TestSettings
       /\ state \in LongStateSamples

SpecLength == InitLength /\ [][NextDecode]_vars

\* data is an encoding as serialize_to_bytes returned it
Produced == pc = "buffer"

\* data was accepted by the decoder
Accepted == pc = "decoded" /\ decoded.tag = "Ok"

\* C20 as stated: in every buffer Settings encode or State encode produces, the
\* remaining-length byte equals the number of bytes from the inner header through
\* the byte before the footer; and decode accepts a buffer only when the byte equals
\* that count.
C20_LengthByteIsBodySize ==
    /\ Produced => RemainingLengthByte(data) = BodySize(data)
    /\ Accepted => RemainingLengthByte(data) = BodySize(data)

\* C20 amended: the byte counts itself.  In every buffer encode produces, the
\* remaining-length byte equals that count plus one, reduced modulo 256 as a single
\* byte is; and decode accepts a buffer only when the byte equals that count plus one.
C20_LengthByteIsBodySizePlusOne ==
    /\ Produced => RemainingLengthByte(data) = (BodySize(data) + 1) % 256
    /\ Accepted => RemainingLengthByte(data) = BodySize(data) + 1

\* the 60 bytes of the test: a body of 37 bytes under the length byte 38, accepted
C20_Witness ==
    /\ Accepted
    /\ kind = "settings"
    /\ data = TestSettingsBytes
    /\ RemainingLengthByte(data) = 38
    /\ BodySize(data) = 37

----------------------------------------------------------------------------
(* Accepted buffers, encoded again *)

\* state.serialize_to_bytes() of the record deserialize_from_bytes returned
ReencodeState ==
    /\ pc = "decoded"
    /\ kind = "state"
    /\ decoded.tag = "Ok"
    /\ ret' = Call("serialize_to_bytes", decoded.value,
                   State_serialize_to_bytes(decoded.value))
    /\ pc' = "reencoded"
    /\ UNCHANGED <<overflow_checks, kind, settings, state, now, data, decoded, lastFlip>>

\* settings.serialize_to_bytes() of the record deserialize_from_bytes returned
ReencodeSettings ==
    /\ pc = "decoded"
    /\ kind = "settings"
    /\ decoded.tag = "Ok"
    /\ ret' = Call("serialize_to_bytes", decoded.value,
                   Settings_serialize_to_bytes(decoded.value))
    /\ pc' = "reencoded"
    /\ UNCHANGED <<overflow_checks, kind, settings, state, now, data, decoded, lastFlip>>

InitReencode ==
    \/ InitDecode
    \/ InitStateCodec

NextReencode ==
    \/ NextDecode
    \/ ReencodeState
    \/ ReencodeSettings

SpecReencode == InitReencode /\ [][NextReencode]_vars

\* the accepted buffer data has been encoded again, into ret.out
Reencoded == pc = "reencoded"

\* the 2-byte enabled marker stands directly after the inner header of d
MarkerPresent(d) ==
    /\ SliceOk(d, 23, 25)
    /\ Slice(d, 23, 25) = NIGHTLIGHT_STATE_ENABLED_BYTES

\* where the opaque payload of d starts: after the marker when it is present, after
\* the inner header otherwise
PayloadStart(d) == IF MarkerPresent(d) THEN 25 ELSE 23

\* the bytes of d from the payload start to the 4-byte footer
PayloadOf(d) == Slice(d, PayloadStart(d), Len(d) - Len(STRUCT_FOOTER_BYTES))

----------------------------------------------------------------------------
(* Settings buffers whose time blocks the store has rewritten *)

\* the time of a record that a time block holds
TimeOf(self, time_type) ==
    CASE time_type = "ScheduleStart" -> self.start_time
      [] time_type = "ScheduleEnd" -> self.end_time
      [] time_type = "Sunset" -> self.sunset_time
      [] time_type = "Sunrise" -> self.sunrise_time

\* the offset of a time block in the encoding of a record: after the 19 bytes up to
\* the remaining-length byte, the inner header, the mode markers and the fields
\* serialize_to_bytes puts before it
TimeBlockOffset(self, time_type) ==
    LET base == 19 + Len(STRUCT_HEADER_BYTES)
                + (IF self.schedule_mode # "Off" THEN Len(SCHEDULE_ENABLED_BYTES) ELSE 0)
                + (IF self.schedule_mode = "SetHours"
                   THEN Len(SCHEDULE_MODE_SET_HOURS_ENABLED_BYTES) ELSE 0)
        start == Len(naive_time_to_bytes(self.start_time, "ScheduleStart"))
        end == Len(naive_time_to_bytes(self.end_time, "ScheduleEnd"))
        color == Len(COLOR_TEMPERATURE_PREFIX_BYTES) + 2
        sunset == Len(naive_time_to_bytes(self.sunset_time, "Sunset"))
    IN  CASE time_type = "ScheduleStart" -> base
          [] time_type = "ScheduleEnd" -> base + start
          [] time_type = "Sunset" -> base + start + end + color
          [] time_type = "Sunrise" -> base + start + end + color + sunset

\* the parts a time block is made of after its prefix, each present or not, with
\* values at and past the limits
HourParts == { <<>>, <<14, 0>>, <<14, 23>>, <<14, 24>>, <<14, 255>> }

MinuteParts == { <<>>, <<46, 0>>, <<46, 59>>, <<46, 60>>, <<46, 255>> }

TerminalParts == { <<>>, <<0>>, <<1>> }

\* the store returns the encoding with one time block made of other parts, the
\* remaining-length byte set to match; what follows the block is kept, or the buffer
\* ends with the block
ReplaceTimeBlock(time_type, hour, minute, terminal, rest) ==
    /\ pc = "buffer"
    /\ kind = "settings"
    /\ LET off == TimeBlockOffset(settings, time_type)
           old == naive_time_to_bytes(TimeOf(settings, time_type), time_type)
           block == get_prefix_identifier(time_type) \o hour \o minute \o terminal
           tail == IF rest = "kept" THEN Slice(data, off + Len(old), Len(data)) ELSE <<>>
           body == Slice(data, 19, off) \o block \o tail
       IN  data' = Slice(data, 0, 18) \o <<Len(body) - 3>> \o body
    /\ ret' = Call("time_block",
                   [time_type |-> time_type, hour |-> hour, minute |-> minute,
                    terminal |-> terminal, rest |-> rest], "buffer")
    /\ pc' = "tampered"
    /\ UNCHANGED <<overflow_checks, kind, settings, state, now, decoded, lastFlip>>

NextTimeBlocks ==
    \/ NextDecode
    \/ \E time_type \in TimeBlockType, hour \in HourParts, minute \in MinuteParts,
          terminal \in TerminalParts, rest \in {"kept", "dropped"} :
            ReplaceTimeBlock(time_type, hour, minute, terminal, rest)

SpecTimeBlocks == InitDecode /\ [][NextTimeBlocks]_vars

\* hour below 24, minute below 60, zero seconds
ValidTime(time) == time.hour \in 0..23 /\ time.minute \in 0..59 /\ time.second = 0

\* the buffer decoded had a time block rewritten by the store
TimeBlockReplaced == pc = "decoded" /\ kind = "settings" /\ ret.op = "time_block"

\* C22: every Settings record decode returns has its four times with hour < 24,
\* minute < 60 and zero seconds; a time block whose tagged hour is 24 or more, whose
\* tagged minute is 60 or more, or that lacks the terminal byte 00 makes decode
\* return an error; an absent hour tag decodes as hour 0, an absent minute tag as
\* minute 0.
C22_TimeBlocksValidated ==
    /\ (kind = "settings" /\ Accepted) =>
         \A time_type \in TimeBlockType : ValidTime(TimeOf(decoded.value, time_type))
    /\ TimeBlockReplaced =>
         LET b == ret.arg IN
         /\ (b.hour # <<>> /\ b.hour[2] >= 24) => decoded.tag = "Err"
         /\ (b.minute # <<>> /\ b.minute[2] >= 60) => decoded.tag = "Err"
         /\ b.terminal # <<TIME_BLOCK_TERMINAL_BYTE>> => decoded.tag = "Err"
         /\ decoded.tag = "Ok" =>
              TimeOf(decoded.value, b.time_type)
                = NaiveTime(IF b.hour = <<>> THEN 0 ELSE b.hour[2],
                            IF b.minute = <<>> THEN 0 ELSE b.minute[2], 0)

----------------------------------------------------------------------------
(* Settings buffers whose mode markers the store has rewritten *)

\* the length of the mode markers serialize_to_bytes writes for a record
ModeMarkersLen(self) ==
    (IF self.schedule_mode # "Off" THEN Len(SCHEDULE_ENABLED_BYTES) ELSE 0)
    + (IF self.schedule_mode = "SetHours"
       THEN Len(SCHEDULE_MODE_SET_HOURS_ENABLED_BYTES) ELSE 0)

\* the store returns the encoding with other mode markers after the inner header,
\* the remaining-length byte set to match
ReplaceModeMarkers(enabled, set_hours) ==
    /\ pc = "buffer"
    /\ kind = "settings"
    /\ LET from == 19 + Len(STRUCT_HEADER_BYTES)
           markers == (IF enabled THEN SCHEDULE_ENABLED_BYTES ELSE <<>>)
                      \o (IF set_hours THEN SCHEDULE_MODE_SET_HOURS_ENABLED_BYTES ELSE <<>>)
           body == STRUCT_HEADER_BYTES \o markers
                   \o Slice(data, from + ModeMarkersLen(settings), Len(data))
       IN  data' = Slice(data, 0, 18) \o <<Len(body) - 3>> \o body
    /\ ret' = Call("mode_markers", [enabled |-> enabled, set_hours |-> set_hours], "buffer")
    /\ pc' = "tampered"
    /\ UNCHANGED <<overflow_checks, kind, settings, state, now, decoded, lastFlip>>

\* the test record in each mode, its first time block of either length
ModeSettingsSamples ==
    { [TestSettings EXCEPT !.schedule_mode = mode, !.start_time = time] :
        mode \in ScheduleMode, time \in { T(0, 0), T(1, 15) } }

InitModeMarkers ==
    \/ InitDecode
    \/ /\ InitCommon
       /\ kind = "settings"
       /\ settings \in ModeSettingsSamples
       /\ state = TestStateDisabled

NextModeMarkers ==
    \/ NextDecode
    \/ \E enabled \in BOOLEAN, set_hours \in BOOLEAN : ReplaceModeMarkers(enabled, set_hours)

SpecModeMarkers == InitModeMarkers /\ [][NextModeMarkers]_vars

\* the bytes m stand in d at offset i
MarkerAt(d, i, m) == SliceOk(d, i, i + Len(m)) /\ Slice(d, i, i + Len(m)) = m

\* the bytes m stand somewhere in d
MarkerIn(d, m) == \E i \in 0..Len(d) : MarkerAt(d, i, m)

\* C23: in every buffer Settings encode produces, the marker 02 01 stands directly
\* after the inner header iff the mode is not Off, and C2 0A 00 is present iff the
\* mode is SetHours, and then directly after the schedule-enabled marker; decode
\* returns Off when the schedule-enabled marker is absent, SunsetToSunrise when only
\* it is present, and SetHours when both are.
C23_ModeMarkers ==
    /\ (kind = "settings" /\ Produced) =>
         /\ MarkerAt(data, 23, SCHEDULE_ENABLED_BYTES) <=> settings.schedule_mode # "Off"
         /\ MarkerIn(data, SCHEDULE_MODE_SET_HOURS_ENABLED_BYTES)
              <=> settings.schedule_mode = "SetHours"
         /\ settings.schedule_mode = "SetHours" =>
              MarkerAt(data, 25, SCHEDULE_MODE_SET_HOURS_ENABLED_BYTES)
    /\ (kind = "settings" /\ Accepted) =>
         decoded.value.schedule_mode =
            IF ~MarkerAt(data, 23, SCHEDULE_ENABLED_BYTES) THEN "Off"
            ELSE IF MarkerAt(data, 25, SCHEDULE_MODE_SET_HOURS_ENABLED_BYTES) THEN "SetHours"
            ELSE "SunsetToSunrise"

\* a buffer with the set-hours marker and no schedule-enabled marker before it,
\* accepted and decoded as Off
C23_Witness ==
    /\ kind = "settings"
    /\ Accepted
    /\ ret.op = "mode_markers"
    /\ settings.schedule_mode = "SetHours"
    /\ ~MarkerAt(data, 23, SCHEDULE_ENABLED_BYTES)
    /\ MarkerAt(data, 23, SCHEDULE_MODE_SET_HOURS_ENABLED_BYTES)
    /\ decoded.value.schedule_mode = "Off"

----------------------------------------------------------------------------
(* Settings buffers that fail several of the decoder's checks at once *)

\* the checks of deserialize_from_bytes, in the order it makes them
CheckOrder ==
    << "OuterHeader", "TimestampBlock", "RemainingLength", "InnerHeader",
       "ScheduleStart", "ScheduleEnd", "ColorTemperature", "Sunset", "Sunrise",
       "Footer", "EndOfBuffer" >>

Checks == { CheckOrder[i] : i \in 1..Len(CheckOrder) }

\* the error each check returns
ErrorOf(check) ==
    CASE check \in {"OuterHeader", "InnerHeader"} -> Err("StructStart")
      [] check = "TimestampBlock" -> Err("TimestampBlock")
      [] check \in {"RemainingLength", "Footer", "EndOfBuffer"} -> Err("StructEnd")
      [] OTHER -> InvalidBlock(check)

\* the offset of the color temperature prefix in the encoding of a record
ColorTemperatureOffset(self) ==
    TimeBlockOffset(self, "Sunset") - COLOR_TEMPERATURE_SIZE - Len(COLOR_TEMPERATURE_PREFIX_BYTES)

\* the offset of the first byte a check compares, in the encoding d of a record
CheckOffset(self, d, check) ==
    CASE check = "OuterHeader" -> 0
      [] check = "TimestampBlock" -> Len(STRUCT_HEADER_BYTES) + Len(TIMESTAMP_HEADER_BYTES)
      [] check = "RemainingLength" -> 18
      [] check = "InnerHeader" -> 19
      [] check = "ColorTemperature" -> ColorTemperatureOffset(self)
      [] check = "Footer" -> Len(d) - 1
      [] check \in TimeBlockType -> TimeBlockOffset(self, check)

\* the store returns the encoding with the first byte of each check in S changed to
\* FF; for the end-of-buffer check, with a byte after the footer that the
\* remaining-length byte counts; with color_value, the first color temperature byte
\* (no check compares it) changed to 00
Damage(S, color_value) ==
    /\ pc = "buffer"
    /\ kind = "settings"
    /\ LET at == { CheckOffset(settings, data, check) : check \in S \ {"EndOfBuffer"} }
           color == ColorTemperatureOffset(settings) + Len(COLOR_TEMPERATURE_PREFIX_BYTES)
           poked == [i \in 1..Len(data) |->
                        IF i - 1 \in at THEN 255
                        ELSE IF color_value /\ i - 1 = color THEN 0
                        ELSE data[i]]
       IN  data' = IF "EndOfBuffer" \in S
                   THEN [Append(poked, 0) EXCEPT ![19] = IF @ = 255 THEN 255 ELSE @ + 1]
                   ELSE poked
    /\ ret' = Call("damage", [checks |-> S, color_value |-> color_value], "buffer")
    /\ pc' = "tampered"
    /\ UNCHANGED <<overflow_checks, kind, settings, state, now, decoded, lastFlip>>

InitChecks ==
    /\ InitCommon
    /\ kind = "settings"
    /\ settings \in DecodedSettingsSamples
    /\ state = TestStateDisabled

NextChecks ==
    \/ SerializeSettings
    \/ \E S \in SUBSET Checks, color_value \in BOOLEAN : Damage(S, color_value)
    \/ DeserializeSettings

SpecChecks == InitChecks /\ [][NextChecks]_vars

\* the earliest check of S in the decoder's order
FirstOf(S) ==
    CheckOrder[CHOOSE i \in 1..Len(CheckOrder) :
                  /\ CheckOrder[i] \in S
                  /\ \A j \in 1..(i - 1) : CheckOrder[j] \notin S]

\* C24: Settings decode makes its checks in a fixed order (outer header, timestamp
\* block, remaining-length byte, inner header, schedule-start block, schedule-end
\* block, color temperature prefix, sunset block, sunrise block, footer, end of
\* buffer) and returns the error of the first check that fails: a buffer that fails
\* several checks gets the earliest error, and a time-block prefix mismatch gets the
\* error tag naming its field.
C24_FirstFailingCheck ==
    (pc = "decoded" /\ ret.op = "damage" /\ ret.arg.checks # {})
        => decoded = ErrorOf(FirstOf(ret.arg.checks))

----------------------------------------------------------------------------
(* The CLI's scheduled modes *)

\* the last run of main was the given command and returned Ok(())
Completed(cmd) ==
    /\ ret.op = "main"
    /\ ret.arg.cmd = cmd
    /\ ret.out.last \in {"none", "written"}

----------------------------------------------------------------------------
(* A decoded Settings record, changed by setters, written back and read again *)

NextSettingsWriteBack ==
    \/ NextSettingsMutators
    \/ SerializeSettings
    \/ DeserializeSettings

SpecSettingsWriteBack == InitSettingsMutators /\ [][NextSettingsWriteBack]_vars

\* C26: a Settings record obtained by a successful decode and then changed by any
\* sequence of setter calls, time setters with non-zero seconds included, still
\* round-trips: decoding its encoding returns a record equal to it.
C26_MutatedRecordRoundTrips ==
    (kind = "settings" /\ pc = "decoded") => decoded = Ok(settings)

----------------------------------------------------------------------------
(* The color temperature under the setters *)

\* 1200..=6500
InDomain(color_temperature) == color_temperature >= 1200 /\ color_temperature <= 6500

\* C27: a color_temperature in 1200-6500 is still in 1200-6500 after any setter
\* call with any argument (set_color_temperature, set_mode, the four time setters),
\* whether the call succeeds or is rejected; hence after any sequence of them.
C27_ColorTemperatureStaysInDomain ==
    [][ (Called /\ InDomain(settings.color_temperature))
            => InDomain(settings'.color_temperature) ]_vars

\* a record holding 6500 after an accepted change, with its mode and start time
\* set by other setters, has had a request for 6501 rejected
C27_Witness ==
    /\ ret.op = "set_color_temperature"
    /\ ret.arg = 6501
    /\ ret.out.tag = "Err"
    /\ settings.color_temperature = 6500
    /\ settings.start_time = NaiveTime(23, 59, 30)
    /\ settings.schedule_mode = "SunsetToSunrise"

----------------------------------------------------------------------------
(* What a mutator leaves alone *)

\* the field of the Settings record a setter is for
TargetOf(op) ==
    CASE op = "set_mode" -> "schedule_mode"
      [] op = "set_color_temperature" -> "color_temperature"
      [] op = "set_start_time" -> "start_time"
      [] op = "set_end_time" -> "end_time"
      [] op = "set_sunset_time" -> "sunset_time"
      [] op = "set_sunrise_time" -> "sunrise_time"

\* the fields of a Settings record other than the timestamp
SettingsFields ==
    { "schedule_mode", "color_temperature", "start_time", "end_time",
      "sunset_time", "sunrise_time" }

\* C28: every mutator changes at most its own field and the timestamp: set_mode
\* leaves the color temperature and the four times, set_color_temperature leaves the
\* mode and the times, each time setter leaves the mode, the color temperature and
\* the other three times, and enable() and disable() leave the State record's
\* opaque payload.
C28_MutatorFrame ==
    [][ /\ (Called /\ ret'.op \in SettingsSetters) =>
              \A f \in SettingsFields \ {TargetOf(ret'.op)} : settings'[f] = settings[f]
        /\ (Called /\ ret'.op \in Flips) =>
              state'.remaining_data = state.remaining_data ]_vars

\* set_end_time has changed the end time and the timestamp of a record whose other
\* fields were set before and are as they were
C28_Witness ==
    /\ ret.op = "set_end_time"
    /\ ret.arg = NaiveTime(23, 59, 30)
    /\ settings.end_time = NaiveTime(23, 59, 30)
    /\ settings.timestamp = ret.at
    /\ settings.start_time = T(0, 0)
    /\ settings.sunset_time = NaiveTime(23, 59, 30)
    /\ settings.color_temperature = 6500
    /\ settings.schedule_mode = "SunsetToSunrise"

----------------------------------------------------------------------------
(* The remaining-length byte of long State records *)

\* data, decoded or not yet, is the encoding of the State record as it was returned
Untouched ==
    LET e == State_serialize_to_bytes(state) IN e.tag = "Ok" /\ e.bytes = data

\* C29: for every State record, whatever the length of its payload (250 bytes and
\* more included), the remaining-length byte serialize_to_bytes writes neither wraps
\* nor truncates: serialize_to_bytes returns a buffer whose length is that byte plus
\* 18 + 4, and State decode accepts the buffer.
C29_LengthByteFitsEveryPayload ==
    kind = "state" =>
        /\ pc # "panicked"
        /\ Produced => Len(data) = RemainingLengthByte(data) + 18 + Len(STRUCT_FOOTER_BYTES)
        /\ (pc = "decoded" /\ Untouched) => decoded.tag = "Ok"

----------------------------------------------------------------------------
(* Settings buffers the decoder accepts, and what encoding them again gives *)

NextCanonical ==
    \/ SerializeSettings
    \/ \E n \in 0..Len(data) : Truncate(n)
    \/ \E i \in 0..Len(data), b \in PokeBytes : Poke(i, b)
    \/ \E b \in PokeBytes : Extend(b)
    \/ \E time_type \in TimeBlockType, hour \in HourParts, minute \in MinuteParts,
          terminal \in TerminalParts, rest \in {"kept", "dropped"} :
            ReplaceTimeBlock(time_type, hour, minute, terminal, rest)
    \/ \E enabled \in BOOLEAN, set_hours \in BOOLEAN : ReplaceModeMarkers(enabled, set_hours)
    \/ DeserializeSettings
    \/ ReencodeSettings

SpecCanonical == InitChecks /\ [][NextCanonical]_vars

\* data is the encoding of the Settings record as serialize_to_bytes returned it
Encoding ==
    LET e == Settings_serialize_to_bytes(settings) IN e.tag = "Ok" /\ e.bytes = data

\* C30 as stated: Settings decode accepts only canonical encodings: for every buffer
\* deserialize_from_bytes accepts, serialize_to_bytes of the decoded record is
\* byte-identical to the buffer.
C30_AcceptedIsCanonical ==
    (kind = "settings" /\ Reencoded) => ret.out = [tag |-> "Ok", bytes |-> data]

\* C30 amended: decode accepts encodings that are not canonical too.  For every
\* buffer deserialize_from_bytes accepts, serialize_to_bytes of the decoded record
\* returns a buffer that decodes to the same record (and so encodes to itself again);
\* it is byte-identical to the accepted buffer when that buffer is an encoding
\* serialize_to_bytes returned.
C30_ReencodingIsCanonical ==
    (kind = "settings" /\ Reencoded) =>
        /\ ret.out.tag = "Ok"
        /\ Settings_deserialize_from_bytes(ret.out.bytes) = decoded
        /\ Encoding => ret.out.bytes = data

\* the store changed the first color temperature byte to FF: the buffer is accepted
\* and encoding the decoded record gives other bytes, which decode to that record
C30_Witness ==
    /\ kind = "settings"
    /\ Reencoded
    /\ ~Encoding
    /\ At(data, ColorTemperatureOffset(settings) + 2) = 255
    /\ ret.out.bytes # data
    /\ Len(ret.out.bytes) = Len(data)
    /\ Settings_deserialize_from_bytes(ret.out.bytes) = decoded

====
